---- MODULE Spec2Model ----
(***************************************************************************)
(* tmuxrs: the session orchestrator (src/src/session.rs), the tmux client  *)
(* (src/src/tmux.rs) and the pane model (src/src/config.rs), run against a *)
(* model of the tmux server the client talks to.                           *)
(*                                                                         *)
(* A run of start_session_with_options / stop_session is a sequence of     *)
(* blocking client calls; each action below is one client call together    *)
(* with the orchestrator code that runs up to the next call.               *)
(*                                                                         *)
(* Texts (results, error messages, stderr) are sequences of words, so that *)
(* "the text contains ..." is a property of the value.                     *)
(***************************************************************************)
EXTENDS Integers, Sequences, FiniteSets, TLC

\* ------------------------------------------------------------------ bounds
\* operations (start / stop / session_exists) one manager performs
MaxOps == 2
\* client calls that fail for a reason of the environment (tmux cannot be
\* spawned, the server does not answer, no room for a pane, ...)
MaxFaults == 1

\* ------------------------------------------------------------- the universe
Procs == {1, 2}
SessionNames == {"proj"}
\* the ambient default server and one explicit -S socket
DefaultServer == "default"
Sockets == {DefaultServer, "sock"}
\* name tmux gives the window that new-session creates
DefaultWindowName == "bash"
\* a path is the sequence of its pieces: "~", a variable reference or text
HomeRef == <<"~">>

\* ------------------------------------------------------------------- texts
\* str::trim followed by is_empty, on the command strings of the model
IsBlank(s) == s \in {"", "  "}

ContainsPhrase(text, phrase) ==
    \E i \in 0..(Len(text) - Len(phrase)) :
        \A j \in 1..Len(phrase) : text[i + j] = phrase[j]

RECURSIVE SeqSum(_)
SeqSum(s) == IF s = <<>> THEN 0 ELSE Head(s) + SeqSum(Tail(s))

RECURSIVE FilterStrings(_)
\* filter_map keeping the string values of a YAML sequence, in order
FilterStrings(seq) ==
    IF seq = <<>> THEN <<>>
    ELSE IF Head(seq).t = "String"
         THEN <<Head(seq).s>> \o FilterStrings(Tail(seq))
         ELSE FilterStrings(Tail(seq))

\* ------------------------------------------------------------- config model
\* YAML values held by a Named pane
YString(s) == [t |-> "String", s |-> s, seq |-> <<>>]
YSequence(q) == [t |-> "Sequence", s |-> "", seq |-> q]
YNumber == [t |-> "Number", s |-> "", seq |-> <<>>]

\* PaneConfig variants.  A map is the sequence of its entries in the order
\* the hash map iterates them.
PaneSimple(c) == [kind |-> "Simple", cmd |-> c, cmds |-> <<>>, map |-> <<>>]
PaneMultiple(cs) == [kind |-> "Multiple", cmd |-> "", cmds |-> cs, map |-> <<>>]
PaneNamed(m) == [kind |-> "Named", cmd |-> "", cmds |-> <<>>, map |-> m]
PaneNull == [kind |-> "Null", cmd |-> "", cmds |-> <<>>, map |-> <<>>]

\* variant: of several commands only the first is kept
commands_FirstOnly(pane) ==
    CASE pane.kind = "Simple" ->
            IF IsBlank(pane.cmd) THEN <<>> ELSE <<pane.cmd>>
      [] pane.kind = "Multiple" ->
            IF pane.cmds = <<>> THEN <<>> ELSE <<pane.cmds[1]>>
      [] pane.kind = "Named" ->
            IF pane.map # <<>>
            THEN LET value == pane.map[1].value IN
                 CASE value.t = "String" ->
                        IF IsBlank(value.s) THEN <<>> ELSE <<value.s>>
                   [] value.t = "Sequence" ->
                        IF FilterStrings(value.seq) = <<>> THEN <<>>
                        ELSE <<FilterStrings(value.seq)[1]>>
                   [] OTHER -> <<>>
            ELSE <<>>
      [] OTHER -> <<>>

\* PaneConfig::commands
commands(pane) ==
    CASE pane.kind = "Simple" ->
            IF IsBlank(pane.cmd) THEN <<>> ELSE <<pane.cmd>>
      [] pane.kind = "Multiple" -> pane.cmds
      [] pane.kind = "Named" ->
            IF pane.map # <<>>
            THEN LET value == pane.map[1].value IN
                 CASE value.t = "String" ->
                        IF IsBlank(value.s) THEN <<>> ELSE <<value.s>>
                   [] value.t = "Sequence" -> FilterStrings(value.seq)
                   [] OTHER -> <<>>
            ELSE <<>>
      [] OTHER -> <<>>

\* YAML nodes that are no value of a Named pane: null, and a mapping, which
\* is the sequence of its entries [key, value] in document order
YNull == [t |-> "Null", s |-> "", seq |-> <<>>]
YMapping(m) == [t |-> "Mapping", s |-> "", seq |-> m]

\* variant: a string is taken for a list of one command
deserialize_pane_Listify(node) ==
    IF node.t = "Sequence" /\ \A i \in DOMAIN node.seq : node.seq[i].t = "String"
    THEN [ok |-> TRUE,
          pane |-> PaneMultiple([i \in DOMAIN node.seq |-> node.seq[i].s])]
    ELSE IF node.t = "String"
    THEN [ok |-> TRUE, pane |-> PaneMultiple(<<node.s>>)]
    ELSE IF node.t = "Mapping"
    THEN [ok |-> TRUE, pane |-> PaneNamed(node.seq)]
    ELSE IF node.t = "Null"
    THEN [ok |-> TRUE, pane |-> PaneNull]
    ELSE [ok |-> FALSE, pane |-> PaneNull]

\* #[serde(untagged)] on PaneConfig: the variants are tried in the order of
\* their declaration and the first that accepts the node is the value; a
\* node that none accepts is an error of the parse.  Vec<String> accepts a
\* sequence whose elements are all strings, HashMap<String, Value> a mapping,
\* String a string scalar, the unit variant null.
deserialize_pane(node) ==
    IF node.t = "Sequence" /\ \A i \in DOMAIN node.seq : node.seq[i].t = "String"
    THEN [ok |-> TRUE,
          pane |-> PaneMultiple([i \in DOMAIN node.seq |-> node.seq[i].s])]
    ELSE IF node.t = "Mapping"
    THEN [ok |-> TRUE, pane |-> PaneNamed(node.seq)]
    ELSE IF node.t = "String"
    THEN [ok |-> TRUE, pane |-> PaneSimple(node.s)]
    ELSE IF node.t = "Null"
    THEN [ok |-> TRUE, pane |-> PaneNull]
    ELSE [ok |-> FALSE, pane |-> PaneNull]

\* panes: Vec<PaneConfig> of WindowLayout: element by element, in order; one
\* element that does not parse fails the whole
deserialize_panes(nodes) ==
    IF \A i \in DOMAIN nodes : deserialize_pane(nodes[i]).ok
    THEN [ok |-> TRUE,
          panes |-> [i \in DOMAIN nodes |-> deserialize_pane(nodes[i]).pane]]
    ELSE [ok |-> FALSE, panes |-> <<>>]

\* WindowLayout
WindowLayout(l, ps) == [layout |-> l, panes |-> ps]
NoLayout == "<none>"

\* WindowConfig variants; `window` holds the entries of the flattened map
WinSimple(c) ==
    [kind |-> "Simple", command |-> c, window |-> <<>>]
WinComplex(entries) ==
    [kind |-> "Complex", command |-> "", window |-> entries]
WinWithLayout(entries) ==
    [kind |-> "WithLayout", command |-> "", window |-> entries]
CEntry(n, c) == [name |-> n, command |-> c, layout |-> NoLayout, panes |-> <<>>]
LEntry(n, wl) == [name |-> n, command |-> "", layout |-> wl.layout, panes |-> wl.panes]

\* Config
Config(n, r, ws) == [name |-> n, root |-> r, windows |-> ws]
NoRoot == <<"<none>">>

\* The configuration files a run may find for its session.
Descriptors ==
    { Config("proj", <<"/tmp">>, <<WinSimple("echo hi")>>),
      Config("proj", NoRoot,
             <<WinComplex(<<CEntry("editor", "vim")>>), WinSimple("  "),
               WinComplex(<<CEntry("logs", "tail")>>)>>),
      Config("proj", <<"~", "/x", "$UNSET">>,
             <<WinWithLayout(<<LEntry("mixed", WindowLayout("tiled",
                 <<PaneSimple("a"), PaneSimple(""),
                   PaneNamed(<<[key |-> "editor", value |-> YString("b")]>>),
                   PaneMultiple(<<"c", "", "d">>)>>))>>)>>),
      Config("proj", <<"$HOME", "/x">>,
             <<WinSimple("top"),
               WinWithLayout(<<LEntry("dev", WindowLayout(NoLayout,
                 <<PaneNull, PaneSimple("a")>>))>>)>>),
      Config("other", <<"/tmp">>,
             <<WinComplex(<<CEntry("main", "")>>),
               WinWithLayout(<<LEntry("none", WindowLayout("tiled", <<>>))>>)>>),
      Config("proj", <<"/tmp">>,
             <<WinComplex(<<>>),
               WinWithLayout(<<LEntry("work", WindowLayout("main-vertical",
                 <<PaneSimple("a"), PaneNull>>))>>),
               WinSimple("htop")>>),
      Config("proj", <<"/tmp">>,
             <<WinWithLayout(<<LEntry("empty", WindowLayout(NoLayout, <<>>))>>)>>),
      Config("proj", <<"/tmp">>, <<>>),
      Config("proj", <<"/tmp">>,
             <<WinComplex(<<CEntry("a", "x")>>),
               WinComplex(<<CEntry("a", "y")>>)>>),
      Config("proj", <<"/tmp">>,
             <<WinComplex(<<CEntry("a", "x"), CEntry("b", "y")>>)>>) }

\* A mapping of the document is deserialized into a HashMap, whose iteration
\* order is fixed by the hasher's random keys and not by the document: with
\* at most two entries, the document's order or its reverse.
HashSeeds == {0, 1}
HashOrder(entries, seed) ==
    IF seed = 0 THEN entries
    ELSE [i \in 1..Len(entries) |-> entries[Len(entries) + 1 - i]]
HashPane(pane, seed) ==
    IF pane.kind = "Named" THEN [pane EXCEPT !.map = HashOrder(@, seed)]
    ELSE pane
\* serde_yaml::from_str::<Config>: the descriptor as it is held in memory
parse_file(cfg, seed) ==
    [cfg EXCEPT !.windows =
        [i \in DOMAIN cfg.windows |->
            IF cfg.windows[i].kind = "Simple" THEN cfg.windows[i]
            ELSE [cfg.windows[i] EXCEPT !.window =
                    HashOrder([j \in DOMAIN @ |->
                                 [@[j] EXCEPT !.panes =
                                    [k \in DOMAIN @ |-> HashPane(@[k], seed)]]],
                              seed)]]]

\* what Config::load / Config::parse_file find: a descriptor, no file, or a
\* file that does not parse
ConfigFiles ==
    { [found |-> TRUE, parses |-> TRUE, config |-> d] : d \in Descriptors }
    \cup { [found |-> FALSE, parses |-> FALSE, config |-> Config("", NoRoot, <<>>)],
           [found |-> TRUE, parses |-> FALSE, config |-> Config("", NoRoot, <<>>)] }

\* ------------------------------------------------------------ client calls
\* One client call: the argument vector of TmuxCommand and its socket.
\*   window : window name of the target ("" when the target names none)
\*   widx   : window index of the target (-1 when the target names none)
\*   pane   : pane index of the target (-1 when the target names none)
\*   arg    : option name, new window name, keys or layout name
\*   dir    : -c working directory (<<>> when absent)
\*   command: shell command handed over at creation ("" when absent)
\*   enter  : the key name Enter follows the keys
Cmd(op, sock, sess, window, widx, pane, arg, dir, command) ==
    [op |-> op, socket |-> sock, session |-> sess, window |-> window,
     widx |-> widx, pane |-> pane, arg |-> arg, dir |-> dir,
     command |-> command, enter |-> FALSE]
\* .arg(keys).arg("Enter")
WithEnter(c) == [c EXCEPT !.enter = TRUE]

MutatingOps ==
    {"new-session", "set-option", "rename-window", "new-window",
     "split-window", "send-keys", "select-layout", "kill-session"}

\* ------------------------------------------------------------- tmux server
\* The server is outside the repository; this is its documented reaction to
\* the commands the client sends (tmux(1)).  Windows are kept by index, a
\* pane's index is its position in the window plus the window's
\* pane-base-index, read when the target is resolved.
NoSession ==
    [present |-> FALSE, baseIndex |-> -1, windows |-> {}, cur |-> -1,
     cwd |-> <<>>, attached |-> FALSE]

\* a pane: the command it was created with (its shell when ""), the lines
\* entered into it, and the keys typed into it that no Enter has followed
NewPane(born, start) ==
    [born |-> born, input |-> <<>>, start |-> start, typed |-> <<>>]

NewWindowRec(idx, name, start) ==
    [idx |-> idx, name |-> name, paneBase |-> -1,
     panes |-> <<NewPane(0, start)>>, active |-> 1, layout |-> ""]

\* a session a user made by hand before any run: one window, one pane
HandMadeSession(base) ==
    [present |-> TRUE, baseIndex |-> -1,
     windows |-> {NewWindowRec(base, DefaultWindowName, "")},
     cur |-> base, cwd |-> <<"/home">>, attached |-> FALSE]

EffBase(srv, s) == IF s.baseIndex = -1 THEN srv.gBase ELSE s.baseIndex
EffPaneBase(srv, w) == IF w.paneBase = -1 THEN srv.gPaneBase ELSE w.paneBase

WindowIndexes(s) == {w.idx : w \in s.windows}
WindowAt(s, i) == CHOOSE w \in s.windows : w.idx = i
FirstWindowIndex(s) ==
    CHOOSE i \in WindowIndexes(s) : \A j \in WindowIndexes(s) : i <= j
\* new-window without an index takes the lowest free index >= base-index
FreeIndex(s, base) ==
    CHOOSE i \in base..(base + Cardinality(s.windows)) :
        /\ i \notin WindowIndexes(s)
        /\ \A j \in base..(i - 1) : j \in WindowIndexes(s)

\* target-window: "" is the session's current window; a name must match
\* exactly one window
TargetWindows(s, window) ==
    IF window = "" THEN {w \in s.windows : w.idx = s.cur}
    ELSE {w \in s.windows : w.name = window}

PutWindow(s, old, new) == [s EXCEPT !.windows = (@ \ {old}) \cup {new}]

Reply(srv, exit, out, err, num) ==
    [srv |-> srv, exit |-> exit, out |-> out, err |-> err, num |-> num]
Refuse(srv, err) == Reply(srv, 1, <<>>, err, -1)
Accept(srv) == Reply(srv, 0, <<>>, <<>>, -1)
NoSuchSession(srv, c) == Refuse(srv, <<"can't", "find", "session:", c.session>>)
NoSuchWindow(srv, c) == Refuse(srv, <<"can't", "find", "window:", c.window>>)

ReactHasSession(srv, c) ==
    IF srv.sessions[c.session].present THEN Accept(srv) ELSE NoSuchSession(srv, c)

ReactNewSession(srv, c) ==
    IF srv.sessions[c.session].present
    THEN Refuse(srv, <<"duplicate", "session:", c.session>>)
    ELSE Accept([srv EXCEPT !.sessions[c.session] =
            [present |-> TRUE, baseIndex |-> -1,
             windows |-> {NewWindowRec(srv.gBase, DefaultWindowName, c.command)},
             cur |-> srv.gBase, cwd |-> c.dir, attached |-> c.arg # "-d"]])

\* base-index is a session option; pane-base-index is a window option, which
\* set-option -t <session> sets on the session's current window
ReactSetOption(srv, c) ==
    LET s == srv.sessions[c.session] IN
    IF ~s.present THEN NoSuchSession(srv, c)
    ELSE IF c.arg = "base-index"
    THEN Accept([srv EXCEPT !.sessions[c.session].baseIndex = 0])
    ELSE LET w == WindowAt(s, s.cur) IN
         Accept([srv EXCEPT !.sessions[c.session] =
                    PutWindow(s, w, [w EXCEPT !.paneBase = 0])])

ReactKillSession(srv, c) ==
    IF srv.sessions[c.session].present
    THEN Accept([srv EXCEPT !.sessions[c.session] = NoSession])
    ELSE NoSuchSession(srv, c)

ReactAttachSession(srv, c) ==
    IF srv.sessions[c.session].present THEN Accept(srv) ELSE NoSuchSession(srv, c)

ReactNewWindow(srv, c) ==
    LET s == srv.sessions[c.session] IN
    IF ~s.present THEN NoSuchSession(srv, c)
    ELSE LET i == FreeIndex(s, EffBase(srv, s)) IN
         Accept([srv EXCEPT !.sessions[c.session] =
            [s EXCEPT !.windows = @ \cup {NewWindowRec(i, c.arg, c.command)},
                      !.cur = i]])

ReactSendKeys(srv, c) ==
    LET s == srv.sessions[c.session] IN
    IF ~s.present THEN NoSuchSession(srv, c)
    ELSE LET ws == TargetWindows(s, c.window) IN
    IF Cardinality(ws) # 1 THEN NoSuchWindow(srv, c)
    ELSE LET w == CHOOSE x \in ws : TRUE
             pos == IF c.pane = -1 THEN w.active
                    ELSE c.pane - EffPaneBase(srv, w) + 1
         IN IF pos \notin 1..Len(w.panes)
            THEN Refuse(srv, <<"can't", "find", "pane:", c.window>>)
            ELSE Accept([srv EXCEPT !.sessions[c.session] =
                    PutWindow(s, w,
                        IF c.enter
                        THEN [w EXCEPT !.panes[pos].input = Append(@, c.arg)]
                        ELSE [w EXCEPT !.panes[pos].typed = Append(@, c.arg)])])

\* the new pane is placed after the window's active pane and becomes active
ReactSplitWindow(srv, c) ==
    LET s == srv.sessions[c.session] IN
    IF ~s.present THEN NoSuchSession(srv, c)
    ELSE LET ws == TargetWindows(s, c.window) IN
    IF Cardinality(ws) # 1 THEN NoSuchWindow(srv, c)
    ELSE LET w == CHOOSE x \in ws : TRUE
             new == NewPane(Len(w.panes), c.command)
             ps == SubSeq(w.panes, 1, w.active) \o <<new>>
                   \o SubSeq(w.panes, w.active + 1, Len(w.panes))
         IN Accept([srv EXCEPT !.sessions[c.session] =
                PutWindow(s, w, [w EXCEPT !.panes = ps, !.active = w.active + 1])])

ReactSelectLayout(srv, c) ==
    LET s == srv.sessions[c.session] IN
    IF ~s.present THEN NoSuchSession(srv, c)
    ELSE LET ws == TargetWindows(s, c.window) IN
    IF Cardinality(ws) # 1 THEN NoSuchWindow(srv, c)
    ELSE LET w == CHOOSE x \in ws : TRUE IN
         Accept([srv EXCEPT !.sessions[c.session] =
                    PutWindow(s, w, [w EXCEPT !.layout = c.arg])])

\* the index of the window that new-session created, as the server lists it
ReactFirstWindowIndex(srv, c) ==
    LET s == srv.sessions[c.session] IN
    IF ~s.present THEN NoSuchSession(srv, c)
    ELSE Reply(srv, 0, <<>>, <<>>, FirstWindowIndex(s))

ReactRenameWindow(srv, c) ==
    LET s == srv.sessions[c.session] IN
    IF ~s.present THEN NoSuchSession(srv, c)
    ELSE IF c.widx \notin WindowIndexes(s) THEN NoSuchWindow(srv, c)
    ELSE LET w == WindowAt(s, c.widx) IN
         Accept([srv EXCEPT !.sessions[c.session] =
                    PutWindow(s, w, [w EXCEPT !.name = c.arg])])

\* target-session (tmux(1)): the session of exactly that name, else the one
\* session whose name begins with the target; -s of new-session is a name,
\* not a target.  <<a, b>> \in NamePrefixes: name b begins with name a.
NamePrefixes == {<<"proj", "project">>}
TargetSession(srv, target) ==
    IF srv.sessions[target].present THEN target
    ELSE LET begun == {n \in DOMAIN srv.sessions :
                        /\ srv.sessions[n].present
                        /\ <<target, n>> \in NamePrefixes}
         IN IF Cardinality(begun) = 1 THEN CHOOSE n \in begun : TRUE
            ELSE target

React(srv, c) ==
    LET d == IF c.op = "new-session" THEN c
             ELSE [c EXCEPT !.session = TargetSession(srv, c.session)]
    IN
    CASE c.op = "has-session" -> ReactHasSession(srv, d)
      [] c.op = "new-session" -> ReactNewSession(srv, d)
      [] c.op = "set-option" -> ReactSetOption(srv, d)
      [] c.op = "kill-session" -> ReactKillSession(srv, d)
      [] c.op = "attach-session" -> ReactAttachSession(srv, d)
      [] c.op = "new-window" -> ReactNewWindow(srv, d)
      [] c.op = "send-keys" -> ReactSendKeys(srv, d)
      [] c.op = "split-window" -> ReactSplitWindow(srv, d)
      [] c.op = "select-layout" -> ReactSelectLayout(srv, d)
      [] c.op = "list-windows" -> ReactFirstWindowIndex(srv, d)
      [] c.op = "rename-window" -> ReactRenameWindow(srv, d)

\* ------------------------------------------------------------------ client
NoSocketPath == "<none>"
SocketPaths == {NoSocketPath, "sock"}
\* `tmux -S <socket>` talks to that server, plain `tmux` to the default one
ServerOf(c) == IF c.socket = NoSocketPath THEN DefaultServer ELSE c.socket

\* Result<T>: Ok with its text (and number, for an index query), or an error
\* of one of the TmuxrsError kinds with its message
Ok(text, num) == [ok |-> TRUE, kind |-> "Ok", text |-> text, num |-> num]
Err(kind, text) == [ok |-> FALSE, kind |-> kind, text |-> text, num |-> -1]
NoResult == [ok |-> FALSE, kind |-> "none", text |-> <<>>, num |-> -1]

\* What running the tmux binary for `c` gives: not spawned at all, spawned
\* but unable to reach its server, or the server's reaction.
FaultKinds == {"spawn", "exit", "exit-latin1"}
\* a piece of stderr that is not UTF-8 (a message in a Latin-1 locale), and
\* what String::from_utf8_lossy makes of it
InvalidUtf8 == {"accord<E9>e"}
from_utf8_lossy(bytes) ==
    [i \in DOMAIN bytes |->
        IF bytes[i] \in InvalidUtf8 THEN "accord<FFFD>e" ELSE bytes[i]]
Spawn(srv, c, fault) ==
    CASE fault = "spawn" ->
            [spawned |-> FALSE, exit |-> -1, out |-> <<>>, err |-> <<>>,
             num |-> -1, srv |-> srv]
      [] fault = "exit" ->
            [spawned |-> TRUE, exit |-> 1, out |-> <<>>,
             err |-> <<"no", "server", "running">>, num |-> -1, srv |-> srv]
      [] fault = "exit-latin1" ->
            [spawned |-> TRUE, exit |-> 1, out |-> <<>>,
             err |-> <<"error", "connecting:", "Permission", "non",
                       "accord<E9>e">>, num |-> -1, srv |-> srv]
      [] OTHER ->
            LET r == React(srv[ServerOf(c)], c) IN
            [spawned |-> TRUE, exit |-> r.exit, out |-> r.out, err |-> r.err,
             num |-> r.num, srv |-> [srv EXCEPT ![ServerOf(c)] = r.srv]]

\* variant: the exit status is not looked at
execute_AnyExit(output) ==
    IF ~output.spawned
    THEN Err("TmuxError", <<"Failed", "to", "execute", "tmux:", "io">>)
    ELSE Ok(from_utf8_lossy(output.out), output.num)
\* TmuxCommand::execute
execute(output) ==
    IF ~output.spawned
    THEN Err("TmuxError", <<"Failed", "to", "execute", "tmux:", "io">>)
    ELSE IF output.exit # 0
    THEN Err("TmuxError", from_utf8_lossy(output.err))
    ELSE Ok(from_utf8_lossy(output.out), output.num)

\* TmuxCommand::execute_interactive
execute_interactive(tty, output) ==
    IF ~tty
    THEN Err("TmuxError", <<"Failed", "to", "attach:", "No", "TTY", "available">>)
    ELSE IF ~output.spawned
    THEN Err("TmuxError", <<"Failed", "to", "execute", "tmux:", "io">>)
    ELSE IF output.exit # 0
    THEN Err("TmuxError",
             <<"tmux", "command", "failed", "with", "exit", "code:", "1">>)
    ELSE Ok(<<>>, -1)

\* TmuxCommand::session_exists_with_socket: the command, and what it makes
\* of the result of execute (num 1 is true, num 0 is false)
\* variant: the check asks for the session to be killed
has_session_Kills(name, sock) ==
    Cmd("kill-session", sock, name, "", -1, -1, "", <<>>, "")
has_session(name, sock) ==
    Cmd("has-session", sock, name, "", -1, -1, "", <<>>, "")
\* variant: every error of execute is handed on
session_exists_with_socket_Strict(result) ==
    IF result.ok THEN Ok(<<>>, 1) ELSE result
session_exists_with_socket(result) ==
    IF result.ok THEN Ok(<<>>, 1)
    ELSE IF result.kind = "TmuxError" THEN Ok(<<>>, 0)
    ELSE result

\* variant: the working directory is not handed over
new_session_with_socket_NoDir(name, dir, sock) ==
    Cmd("new-session", sock, name, "", -1, -1, "-d", <<>>, "")
\* new-session -d -s <name> -c <dir>
new_session_with_socket(name, dir, sock) ==
    Cmd("new-session", sock, name, "", -1, -1, "-d", dir, "")
\* variant: the option set first is pane-base-index
set_base_index_with_socket_Pane(name, sock) ==
    Cmd("set-option", sock, name, "", -1, -1, "pane-base-index", <<>>, "")
set_base_index_with_socket(name, sock) ==
    Cmd("set-option", sock, name, "", -1, -1, "base-index", <<>>, "")
set_pane_base_index_with_socket(name, sock) ==
    Cmd("set-option", sock, name, "", -1, -1, "pane-base-index", <<>>, "")
new_window_with_socket(name, window, command, dir, sock) ==
    Cmd("new-window", sock, name, "", -1, -1, window, dir, command)
\* variant: the keys are sent without the Enter
send_keys_with_socket_NoEnter(name, window, keys, sock) ==
    Cmd("send-keys", sock, name, window, -1, -1, keys, <<>>, "")
send_keys_with_socket(name, window, keys, sock) ==
    WithEnter(Cmd("send-keys", sock, name, window, -1, -1, keys, <<>>, ""))
\* variant: the socket is not handed on
send_keys_to_pane_with_socket_Default(name, window, pane, keys, sock) ==
    WithEnter(Cmd("send-keys", NoSocketPath, name, window, -1, pane, keys,
                  <<>>, ""))
send_keys_to_pane_with_socket(name, window, pane, keys, sock) ==
    WithEnter(Cmd("send-keys", sock, name, window, -1, pane, keys, <<>>, ""))
kill_session_with_socket(name, sock) ==
    Cmd("kill-session", sock, name, "", -1, -1, "", <<>>, "")
split_window_horizontal_with_socket(name, window, command, dir, sock) ==
    Cmd("split-window", sock, name, window, -1, -1, "-h", dir,
        IF IsBlank(command) THEN "" ELSE command)
select_layout_with_socket(name, window, layout, sock) ==
    Cmd("select-layout", sock, name, window, -1, -1, layout, <<>>, "")
attach_session_with_socket(name, sock) ==
    Cmd("attach-session", sock, name, "", -1, -1, "", <<>>, "")
get_first_window_index_with_socket(name, sock) ==
    Cmd("list-windows", sock, name, "", -1, -1, "", <<>>, "")
rename_window_with_socket(name, widx, window, sock) ==
    Cmd("rename-window", sock, name, "", widx, -1, window, <<>>, "")

\* ------------------------------------------------------------ path expander
\* The environment of the process: HOME is set, UNSET is not; the home
\* directory is known.
HomeDir == "/home/user"
DefinedVars == {"$HOME"}
UndefinedVars == {"$UNSET"}
\* pieces of text that begin with "/"
SlashPieces == {"/tmp", "/x", HomeDir}
\* a leading "~" is the home directory when it ends the path or "/" follows
Tilde(path) ==
    IF path # <<>> /\ path[1] = "~" /\ (Len(path) = 1 \/ path[2] \in SlashPieces)
    THEN <<HomeDir>> \o Tail(path)
    ELSE path
\* shellexpand::tilde
TildeExpand(path) == Tilde(path)
\* shellexpand::full: the variables first, an undefined one is an error;
\* then the tilde
FullExpand(path) ==
    IF \E i \in DOMAIN path : path[i] \in UndefinedVars
    THEN [ok |-> FALSE, path |-> <<>>]
    ELSE [ok |-> TRUE,
          path |-> Tilde([i \in DOMAIN path |->
                            IF path[i] \in DefinedVars THEN HomeDir
                            ELSE path[i]])]
\* variant: the error of the full expansion is handed on
expand_path_Strict(path) ==
    LET full == FullExpand(path) IN
    IF full.ok THEN Ok(full.path, -1)
    ELSE Err("IoError", <<"environment", "variable", "not", "found">>)
\* SessionManager::expand_path
expand_path(path) ==
    LET full == FullExpand(path) IN
    IF full.ok THEN Ok(full.path, -1) ELSE Ok(TildeExpand(path), -1)

\* ------------------------------------------------------------------- state
VARIABLES
    server,      \* per server socket: global options and sessions
    configFile,  \* per session name: the configuration file on disk
    mgr,         \* per manager: SessionManager.socket_path, and config_dir
    run,         \* per manager: the operation in progress and its locals
    ops,         \* per manager: operations begun
    faults,      \* environment faults so far
    alone,       \* per manager: the server as its own calls alone make it
    pure         \* the argument and the value of a function applied alone

vars == <<server, configFile, mgr, run, ops, faults, alone, pure>>

\* format!("window-{index}")
WindowName(index) ==
    CASE index = 0 -> "window-0"
      [] index = 1 -> "window-1"
      [] index = 2 -> "window-2"
      [] OTHER -> "window-n"

\* Display of TmuxrsError (src/src/error.rs)
Display(e) ==
    CASE e.kind = "TmuxError" -> <<"tmux", "command", "failed:">> \o e.text
      [] e.kind = "ConfigNotFound" ->
            <<"Configuration", "file", "not", "found:">> \o e.text
      [] e.kind = "YamlError" -> <<"Failed", "to", "parse", "YAML:">> \o e.text
      [] OTHER -> <<"IO", "error:">> \o e.text

\* what a manager remembers of the existence check it made just before
NoPrev == [op |-> "none", name |-> "", num |-> -1, fault |-> "none"]
PrevOf(r, op, name) ==
    IF r.op = "exists" /\ op = "exists" /\ r.pc = "done" /\ r.name = name
    THEN [op |-> r.op, name |-> r.name, num |-> r.result.num,
          fault |-> r.log[1].fault]
    ELSE NoPrev

\* what is kept of the operation a manager finished just before: whether it
\* was a start that failed after its new-session had succeeded ("partial"),
\* a stop that succeeded ("stopped") or anything else, and for the first two
\* the session it was about
LastOf(r) ==
    LET what == IF /\ r.op = "start" /\ ~r.result.ok
                   /\ \E i \in DOMAIN r.log :
                         r.log[i].cmd.op = "new-session" /\ r.log[i].ok
                THEN "partial"
                ELSE IF r.op = "stop" /\ r.result.ok THEN "stopped"
                ELSE "other"
    IN [what |-> what, name |-> IF what = "other" THEN "" ELSE r.name]

IdleRun ==
    [op |-> "none", pc |-> "idle", name |-> "", attach |-> FALSE,
     append |-> FALSE, config |-> Config("", NoRoot, <<>>), root_path |-> <<>>,
     index |-> 0, window_index |-> 0, pane |-> 0, cmdi |-> 0,
     initial_window_index |-> -1, exists |-> -1, log |-> <<>>,
     result |-> NoResult, before |-> <<>>, prev |-> NoPrev,
     last |-> [what |-> "other", name |-> ""]]

\* ------------------------------------------- start: the code between calls
Finish(r, res) == [r EXCEPT !.pc = "done", !.result = res]

CurElem(r) == r.config.windows[r.index + 1]
\* the (window_name, command | layout_config) the loops are at
CurEntry(r) ==
    IF CurElem(r).kind = "Simple"
    THEN CEntry(WindowName(r.index), CurElem(r).command)
    ELSE CurElem(r).window[r.window_index + 1]
CurPaneCommands(r) == commands(CurEntry(r).panes[r.pane + 1])

\* session.rs 269-287, up to the attach call
AfterWindows(r) ==
    IF r.attach THEN [r EXCEPT !.pc = "attach_new"]
    ELSE Finish(r, Ok(<<"Started", "detached", "session", r.name>>, -1))

\* session.rs 107-112, 146-147, 183-184: the next window of the loops
RECURSIVE EnterElement(_, _)
\* variant: the first window is made with new-window like the others
EnterElement_AlwaysNew(r, i) ==
    IF i >= Len(r.config.windows) THEN AfterWindows(r)
    ELSE LET wc == r.config.windows[i + 1] IN
         IF wc.kind # "Simple" /\ wc.window = <<>> THEN EnterElement(r, i + 1)
         ELSE [r EXCEPT !.index = i, !.window_index = 0, !.pc = "new_window"]
EnterElement(r, i) ==
    IF i >= Len(r.config.windows) THEN AfterWindows(r)
    ELSE LET wc == r.config.windows[i + 1] IN
         IF wc.kind # "Simple" /\ wc.window = <<>> THEN EnterElement(r, i + 1)
         ELSE [r EXCEPT !.index = i, !.window_index = 0,
                        !.pc = IF i = 0 THEN "first_window_index"
                               ELSE "new_window"]

\* variant: the loop is left after its first window
AfterEntry_Leaves(r) == AfterWindows(r)

\* variant: the loop does not advance and makes the window once more
AfterEntry_Stays(r) == [r EXCEPT !.pc = "new_window"]

\* session.rs 107, 146, 183: the next iteration of the loops
AfterEntry(r) ==
    IF CurElem(r).kind # "Simple" /\ r.window_index + 1 < Len(CurElem(r).window)
    THEN [r EXCEPT !.window_index = @ + 1, !.pc = "new_window"]
    ELSE EnterElement(r, r.index + 1)

\* variant: the layout is applied as soon as the first pane is done
AfterPane_LayoutEarly(r, k) ==
    IF CurEntry(r).layout # NoLayout /\ k = 0
    THEN [r EXCEPT !.pc = "select_layout"]
    ELSE IF k + 1 < Len(CurEntry(r).panes)
    THEN [r EXCEPT !.pane = k + 1, !.pc = "split"]
    ELSE AfterEntry(r)

\* session.rs 228-263: after the commands of pane k
AfterPane(r, k) ==
    IF k + 1 < Len(CurEntry(r).panes)
    THEN [r EXCEPT !.pane = k + 1, !.pc = "split"]
    ELSE IF CurEntry(r).layout # NoLayout
    THEN [r EXCEPT !.pc = "select_layout"]
    ELSE AfterEntry(r)

\* session.rs 215-216, 241-242: the commands of pane k
EnterPaneCommands(r, k) ==
    IF commands(CurEntry(r).panes[k + 1]) # <<>>
    THEN [r EXCEPT !.pane = k, !.cmdi = 0, !.pc = "pane_send"]
    ELSE AfterPane(r, k)

AfterPaneSend(r) ==
    IF r.cmdi + 1 < Len(CurPaneCommands(r))
    THEN [r EXCEPT !.cmdi = @ + 1]
    ELSE AfterPane(r, r.pane)

\* variant: the test of the command is inverted
AfterCreate_Inverted(r) ==
    IF CurElem(r).kind = "WithLayout"
    THEN IF CurEntry(r).panes = <<>>
         THEN Finish(r, Err("TmuxError",
                <<"Window", "layout", "must", "have", "at", "least", "one",
                  "pane">>))
         ELSE EnterPaneCommands(r, 0)
    ELSE IF IsBlank(CurEntry(r).command)
    THEN [r EXCEPT !.pc = "send_keys"]
    ELSE AfterEntry(r)

\* variant: a layout without panes is passed over
AfterCreate_NoPanesOk(r) ==
    IF CurElem(r).kind = "WithLayout"
    THEN IF CurEntry(r).panes = <<>>
         THEN AfterEntry(r)
         ELSE EnterPaneCommands(r, 0)
    ELSE IF ~IsBlank(CurEntry(r).command)
    THEN [r EXCEPT !.pc = "send_keys"]
    ELSE AfterEntry(r)

\* session.rs 135-136, 171-172, 208-215: after the window exists
AfterCreate(r) ==
    IF CurElem(r).kind = "WithLayout"
    THEN IF CurEntry(r).panes = <<>>
         THEN Finish(r, Err("TmuxError",
                <<"Window", "layout", "must", "have", "at", "least", "one",
                  "pane">>))
         ELSE EnterPaneCommands(r, 0)
    ELSE IF ~IsBlank(CurEntry(r).command)
    THEN [r EXCEPT !.pc = "send_keys"]
    ELSE AfterEntry(r)

\* Config::load (no config_dir) and Config::parse_file (config_dir)
LoadConfig(file, config_dir) ==
    IF ~file.found
    THEN IF config_dir THEN Err("IoError", <<"No", "such", "file">>)
         ELSE Err("ConfigNotFound", <<"Configuration", "file", "not", "found:">>)
    ELSE IF ~file.parses THEN Err("YamlError", <<"invalid", "yaml">>)
    ELSE Ok(<<>>, -1)

\* variant: no return in the last branch, the run goes on to new-session
SessionPresent_FallsThrough(r) ==
    IF r.append
    THEN Finish(r, Err("TmuxError",
            <<"Append", "functionality", "not", "yet", "implemented">>))
    ELSE IF r.attach
    THEN [r EXCEPT !.pc = "attach_existing"]
    ELSE [r EXCEPT !.pc = "new_session"]

\* variant: attach is tested before append
SessionPresent_AttachFirst(r) ==
    IF r.attach
    THEN [r EXCEPT !.pc = "attach_existing"]
    ELSE IF r.append
    THEN Finish(r, Err("TmuxError",
            <<"Append", "functionality", "not", "yet", "implemented">>))
    ELSE Finish(r, Ok(<<"Session", r.name, "already", "exists">>, -1))

\* session.rs 60-85: the session exists
SessionPresent(r) ==
    IF r.append
    THEN Finish(r, Err("TmuxError",
            <<"Append", "functionality", "not", "yet", "implemented">>))
    ELSE IF r.attach
    THEN [r EXCEPT !.pc = "attach_existing"]
    ELSE Finish(r, Ok(<<"Session", r.name, "already", "exists">>, -1))

\* variant: the panes of the Layout windows are counted when the
\* configuration is loaded
SessionAbsent_ChecksPanes(r, file, config_dir) ==
    LET loaded == LoadConfig(file, config_dir) IN
    IF ~loaded.ok THEN Finish(r, loaded)
    ELSE IF \E i \in DOMAIN file.config.windows :
                /\ file.config.windows[i].kind = "WithLayout"
                /\ \E j \in DOMAIN file.config.windows[i].window :
                      file.config.windows[i].window[j].panes = <<>>
    THEN Finish(r, Err("TmuxError",
            <<"Window", "layout", "must", "have", "at", "least", "one",
              "pane">>))
    ELSE [r EXCEPT !.config = file.config,
                   !.root_path = expand_path(IF file.config.root = NoRoot
                                             THEN HomeRef
                                             ELSE file.config.root).text,
                   !.pc = "new_session"]

\* session.rs 88-100: the session does not exist
SessionAbsent(r, file, config_dir) ==
    LET loaded == LoadConfig(file, config_dir) IN
    IF ~loaded.ok THEN Finish(r, loaded)
    ELSE LET root_dir == IF file.config.root = NoRoot THEN HomeRef
                         ELSE file.config.root
             root_path == expand_path(root_dir)
         IN IF ~root_path.ok THEN Finish(r, root_path)
            ELSE [r EXCEPT !.config = file.config,
                           !.root_path = root_path.text,
                           !.pc = "new_session"]

\* variant: append is looked at before the existence of the session
AfterExistenceCheck_AppendFirst(r, res, file, config_dir) ==
    IF ~res.ok THEN Finish(r, res)
    ELSE IF r.append THEN SessionPresent([r EXCEPT !.exists = res.num])
    ELSE IF res.num = 1 THEN SessionPresent([r EXCEPT !.exists = 1])
    ELSE SessionAbsent([r EXCEPT !.exists = 0], file, config_dir)

\* variant: the configuration is loaded before the answer is looked at
AfterExistenceCheck_LoadFirst(r, res, file, config_dir) ==
    IF ~res.ok THEN Finish(r, res)
    ELSE IF ~LoadConfig(file, config_dir).ok
    THEN Finish(r, LoadConfig(file, config_dir))
    ELSE IF res.num = 1 THEN SessionPresent([r EXCEPT !.exists = 1])
    ELSE SessionAbsent([r EXCEPT !.exists = 0], file, config_dir)

\* session.rs 59-100: from the answer of the existence check to new-session
AfterExistenceCheck(r, res, file, config_dir) ==
    IF ~res.ok THEN Finish(r, res)
    ELSE IF res.num = 1 THEN SessionPresent([r EXCEPT !.exists = 1])
    ELSE SessionAbsent([r EXCEPT !.exists = 0], file, config_dir)

\* ----------------------------------------------------------------- actions
Sock(p) == mgr[p].socket_path
\* what is kept of one call: the command, the process (spawned or not, its
\* exit status, stdout and stderr), the result the client made of it, and
\* the result the same call has on the server of the manager's calls alone
LogEntry(c, res, output, tty, fault, lone) ==
    [cmd |-> c, ok |-> res.ok, text |-> res.text, num |-> res.num,
     kind |-> res.kind, spawned |-> output.spawned, exit |-> output.exit,
     out |-> output.out, err |-> output.err, tty |-> tty, fault |-> fault,
     lone |-> lone]
FaultChoices == {"none"} \cup (IF faults < MaxFaults THEN FaultKinds ELSE {})
NotSpawned(srv) ==
    [spawned |-> FALSE, exit |-> -1, out |-> <<>>, err |-> <<>>, num |-> -1,
     srv |-> srv]
Brief(res) == [ok |-> res.ok, text |-> res.text, num |-> res.num]

\* one call of a convenience operation built on execute, then Cont
Call(p, c, Cont(_, _)) ==
    \E f \in FaultChoices :
      \E output \in {Spawn(server, c, f)}, single \in {Spawn(alone[p].srv, c, "none")} :
      \E res \in {execute(output)} :
      \E r \in {[run[p] EXCEPT !.log = Append(@,
                    LogEntry(c, res, output, TRUE, f, Brief(execute(single))))]} :
           /\ server' = output.srv
           /\ faults' = IF f = "none" THEN faults ELSE faults + 1
           /\ run' = [run EXCEPT ![p] = Cont(r, res)]
           /\ alone' = IF alone[p].on
                       THEN [alone EXCEPT ![p].srv = single.srv] ELSE alone
           /\ UNCHANGED <<configFile, mgr, ops, pure>>

\* variant: the process is spawned whether there is a terminal or not
interactive_spawns_Always(tty) == TRUE

\* tmux.rs 70-76: execute_interactive returns before Command::new when
\* is_tty_available() is false
interactive_spawns(tty) == tty

\* one call of attach_session_with_socket (execute_interactive), then Cont
CallInteractive(p, c, Cont(_, _)) ==
    \E tty \in BOOLEAN, f \in FaultChoices :
        /\ ~interactive_spawns(tty) => f = "none"
        /\ \E output \in {IF interactive_spawns(tty) THEN Spawn(server, c, f)
                           ELSE NotSpawned(server)},
               single \in {IF interactive_spawns(tty)
                           THEN Spawn(alone[p].srv, c, "none")
                           ELSE NotSpawned(alone[p].srv)} :
           \E res \in {execute_interactive(tty, output)} :
           \E r \in {[run[p] EXCEPT !.log = Append(@,
                       LogEntry(c, res, output, tty, f,
                                Brief(execute_interactive(tty, single))))]} :
              /\ server' = output.srv
              /\ faults' = IF f = "none" THEN faults ELSE faults + 1
              /\ run' = [run EXCEPT ![p] = Cont(r, res)]
              /\ alone' = IF alone[p].on
                          THEN [alone EXCEPT ![p].srv = single.srv] ELSE alone
              /\ UNCHANGED <<configFile, mgr, ops, pure>>

\* variant: the result of the call is dropped and the run goes on
Try_Ignore(r, res, next) == next

\* variant: a call that failed is made again
Try_Retry(r, res, next) == IF res.ok THEN next ELSE r

\* the `?` operator: an Err returns from the function at once
Try(r, res, next) == IF res.ok THEN next ELSE Finish(r, res)

Begin(p, op, pc, name, attach, append) ==
    /\ run[p].pc \in {"idle", "done"}
    /\ ops[p] < MaxOps
    /\ ops' = [ops EXCEPT ![p] = @ + 1]
    /\ run' = [run EXCEPT ![p] =
                 [IdleRun EXCEPT !.op = op, !.pc = pc, !.name = name,
                                 !.attach = attach, !.append = append,
                                 !.before = server,
                                 !.prev = PrevOf(run[p], op, name),
                                 !.last = LastOf(run[p])]]
    /\ UNCHANGED <<server, configFile, mgr, faults, alone, pure>>

\* start_session_with_options(Some(name), config_dir, attach, append)
BeginStart(p) ==
    \E name \in SessionNames, attach \in BOOLEAN, append \in BOOLEAN :
        Begin(p, "start", "check_exists", name, attach, append)

\* stop_session(name)
BeginStop(p) ==
    \E name \in SessionNames : Begin(p, "stop", "stop_check", name, FALSE, FALSE)

\* TmuxCommand::session_exists_with_socket(name, socket) called on its own
BeginExists(p) ==
    \E name \in SessionNames : Begin(p, "exists", "exists_call", name, FALSE, FALSE)

SessionExists(p) ==
    /\ run[p].pc = "exists_call"
    /\ Call(p, has_session(run[p].name, Sock(p)),
            LAMBDA r, res : Finish(r, session_exists_with_socket(res)))

\* session.rs 59
CheckExists(p) ==
    /\ run[p].pc = "check_exists"
    /\ \E seed \in HashSeeds :
          Call(p, has_session(run[p].name, Sock(p)),
               LAMBDA r, res :
                   AfterExistenceCheck(r, session_exists_with_socket(res),
                       [configFile[r.name] EXCEPT !.config = parse_file(@, seed)],
                       mgr[p].config_dir))

\* variant: the error of the attach is returned as it is
AttachedExisting_Bare(r, res) ==
    IF res.ok
    THEN Finish(r, Ok(<<"Attached", "to", "existing", "session", r.name>>, -1))
    ELSE Finish(r, res)

\* session.rs 71-81: the result of the attach to an existing session
AttachedExisting(r, res) ==
    IF res.ok
    THEN Finish(r, Ok(<<"Attached", "to", "existing", "session", r.name>>, -1))
    ELSE Finish(r, Err("TmuxError",
            <<"Failed", "to", "attach", "to", "session", r.name>>
            \o Display(res)))

\* session.rs 67-82
AttachExisting(p) ==
    /\ run[p].pc = "attach_existing"
    /\ CallInteractive(p, attach_session_with_socket(run[p].name, Sock(p)),
            AttachedExisting)

\* variant: the session is created under the name the descriptor gives itself
NewSession_ConfigName(p) ==
    /\ run[p].pc = "new_session"
    /\ Call(p, new_session_with_socket(run[p].config.name, run[p].root_path, Sock(p)),
            LAMBDA r, res : Try(r, res, [r EXCEPT !.pc = "set_base_index"]))

\* session.rs 100
NewSession(p) ==
    /\ run[p].pc = "new_session"
    /\ Call(p, new_session_with_socket(run[p].name, run[p].root_path, Sock(p)),
            LAMBDA r, res : Try(r, res, [r EXCEPT !.pc = "set_base_index"]))

\* session.rs 103
SetBaseIndex(p) ==
    /\ run[p].pc = "set_base_index"
    /\ Call(p, set_base_index_with_socket(run[p].name, Sock(p)),
            LAMBDA r, res : Try(r, res, [r EXCEPT !.pc = "set_pane_base_index"]))

\* session.rs 104, and the entry of the window loop
SetPaneBaseIndex(p) ==
    /\ run[p].pc = "set_pane_base_index"
    /\ Call(p, set_pane_base_index_with_socket(run[p].name, Sock(p)),
            LAMBDA r, res : Try(r, res, EnterElement(r, 0)))

\* session.rs 114-117, 149-153, 186-190
FirstWindowIndexQuery(p) ==
    /\ run[p].pc = "first_window_index"
    /\ Call(p, get_first_window_index_with_socket(run[p].name, Sock(p)),
            LAMBDA r, res :
                Try(r, res, [r EXCEPT !.initial_window_index = res.num,
                                      !.pc = "rename_window"]))

\* session.rs 118-123, 154-159, 191-196
RenameWindow(p) ==
    /\ run[p].pc = "rename_window"
    /\ Call(p, rename_window_with_socket(run[p].name,
                    run[p].initial_window_index, CurEntry(run[p]).name, Sock(p)),
            LAMBDA r, res : Try(r, res, AfterCreate(r)))

\* session.rs 126-132, 162-168, 199-205
NewWindow(p) ==
    /\ run[p].pc = "new_window"
    /\ Call(p, new_window_with_socket(run[p].name, CurEntry(run[p]).name, "",
                    run[p].root_path, Sock(p)),
            LAMBDA r, res : Try(r, res, AfterCreate(r)))

\* session.rs 137-142, 173-178
SendKeys(p) ==
    /\ run[p].pc = "send_keys"
    /\ Call(p, send_keys_with_socket(run[p].name, CurEntry(run[p]).name,
                    CurEntry(run[p]).command, Sock(p)),
            LAMBDA r, res : Try(r, res, AfterEntry(r)))

\* session.rs 218-224 (pane 0) and 245-251 (pane pane_index + 1)
SendKeysToPane(p) ==
    /\ run[p].pc = "pane_send"
    /\ Call(p, send_keys_to_pane_with_socket(run[p].name, CurEntry(run[p]).name,
                    run[p].pane, CurPaneCommands(run[p])[run[p].cmdi + 1],
                    Sock(p)),
            LAMBDA r, res : Try(r, res, AfterPaneSend(r)))

\* session.rs 232-238
SplitWindow(p) ==
    /\ run[p].pc = "split"
    /\ Call(p, split_window_horizontal_with_socket(run[p].name,
                    CurEntry(run[p]).name, "", run[p].root_path, Sock(p)),
            LAMBDA r, res : Try(r, res, EnterPaneCommands(r, r.pane)))

\* session.rs 256-263
SelectLayout(p) ==
    /\ run[p].pc = "select_layout"
    /\ Call(p, select_layout_with_socket(run[p].name, CurEntry(run[p]).name,
                    CurEntry(run[p]).layout, Sock(p)),
            LAMBDA r, res : Try(r, res, AfterEntry(r)))

\* variant: an attach that failed is tried once more
AttachedNew_Again(r, res) ==
    IF res.ok
    THEN Finish(r, Ok(<<"Started", "and", "attached", "to", "session",
                        r.name>>, -1))
    ELSE [r EXCEPT !.pc = "attach_new"]

\* session.rs 273-283: the result of the attach to the session just made
AttachedNew(r, res) ==
    IF res.ok
    THEN Finish(r, Ok(<<"Started", "and", "attached", "to", "session",
                        r.name>>, -1))
    ELSE Finish(r, Err("TmuxError",
            <<"Started", "session", r.name, "but", "failed", "to", "attach:">>
            \o Display(res)))

\* session.rs 270-284
AttachNew(p) ==
    /\ run[p].pc = "attach_new"
    /\ CallInteractive(p, attach_session_with_socket(run[p].name, Sock(p)),
            AttachedNew)

\* variant: the session is killed without looking at the check
StopAfterCheck_Unchecked(r, e) ==
    IF ~e.ok THEN Finish(r, e)
    ELSE [r EXCEPT !.exists = e.num, !.pc = "kill"]

\* session.rs 341-345: after the existence check of stop_session
StopAfterCheck(r, e) ==
    IF ~e.ok THEN Finish(r, e)
    ELSE IF e.num = 0
    THEN Finish([r EXCEPT !.exists = 0], Err("TmuxError",
            <<"Session", r.name, "does", "not", "exist">>))
    ELSE [r EXCEPT !.exists = 1, !.pc = "kill"]

\* session.rs 341-345
StopCheck(p) ==
    /\ run[p].pc = "stop_check"
    /\ Call(p, has_session(run[p].name, Sock(p)),
            LAMBDA r, res : StopAfterCheck(r, session_exists_with_socket(res)))

\* session.rs 347-348
KillSession(p) ==
    /\ run[p].pc = "kill"
    /\ Call(p, kill_session_with_socket(run[p].name, Sock(p)),
            LAMBDA r, res :
                Try(r, res, Finish(r, Ok(<<"Stopped", "session", r.name>>, -1))))

\* ------------------------------------------------------------ specification
\* nothing has been applied on its own
NoPure ==
    [fn |-> "none", pane |-> PaneNull, path |-> <<>>, nodes |-> <<>>,
     applied |-> FALSE, commands |-> <<>>, expanded |-> NoResult,
     parsed |-> [ok |-> FALSE, panes |-> <<>>]]

\* ~/.tmux.conf may set base-index and pane-base-index; every server reads it
Ambient == [gBase : {0, 1}, gPaneBase : {0, 1}]

Init ==
    /\ \E a \in Ambient, present \in BOOLEAN :
          server = [k \in Sockets |->
                      [gBase |-> a.gBase, gPaneBase |-> a.gPaneBase,
                       sessions |-> [n \in SessionNames |->
                            IF present THEN HandMadeSession(a.gBase)
                            ELSE NoSession]]]
    /\ configFile \in [SessionNames -> ConfigFiles]
    /\ \E m \in {[socket_path |-> NoSocketPath, config_dir |-> FALSE],
                 [socket_path |-> "sock", config_dir |-> TRUE]} :
          mgr = [p \in Procs |-> m]
    /\ run = [p \in Procs |-> IdleRun]
    /\ ops = [p \in Procs |-> 0]
    /\ faults = 0
    /\ alone = [p \in Procs |-> [on |-> FALSE, srv |-> server]]
    /\ pure = NoPure

Step(p) ==
    \/ BeginStart(p)
    \/ BeginStop(p)
    \/ BeginExists(p)
    \/ SessionExists(p)
    \/ CheckExists(p)
    \/ AttachExisting(p)
    \/ NewSession(p)
    \/ SetBaseIndex(p)
    \/ SetPaneBaseIndex(p)
    \/ FirstWindowIndexQuery(p)
    \/ RenameWindow(p)
    \/ NewWindow(p)
    \/ SendKeys(p)
    \/ SendKeysToPane(p)
    \/ SplitWindow(p)
    \/ SelectLayout(p)
    \/ AttachNew(p)
    \/ StopCheck(p)
    \/ KillSession(p)

\* one manager, one operation at a time (section 5 of the specification)
Next == Step(1)

Spec == Init /\ [][Next]_vars

\* ------------------------------------------- a function applied on its own
\* lists of at most n elements of S
SeqsUpTo(S, n) == UNION {[1..k -> S] : k \in 0..n}
\* longest list of commands, of values and of path pieces that is tried
MaxCmds == 2
MaxPieces == 2
CommandStrings == {"", "  ", "a", "b"}
YScalars == {YString(s) : s \in CommandStrings} \cup {YNumber}
YValues == YScalars \cup {YSequence(q) : q \in SeqsUpTo(YScalars, MaxCmds)}
\* the PaneConfig values: every shape, maps of no, one and two entries
PaneInputs ==
    {PaneNull}
    \cup {PaneSimple(s) : s \in CommandStrings}
    \cup {PaneMultiple(cs) : cs \in SeqsUpTo(CommandStrings, MaxCmds)}
    \cup {PaneNamed(<<>>)}
    \cup {PaneNamed(<<[key |-> "editor", value |-> v]>>) : v \in YValues}
    \cup {PaneNamed(<<[key |-> "editor", value |-> v],
                      [key |-> "zsh", value |-> YString("b")]>>) : v \in YValues}
\* longest pane list that is parsed
MaxPanes == 3
\* the nodes a pane list is made of: every shape, and those no variant takes
PaneNodes ==
    {YNull, YNumber}
    \cup {YString(s) : s \in {"vim", "", "top"}}
    \cup {YSequence(<<>>), YSequence(<<YString("vim"), YString("")>>),
          YSequence(<<YString("vim"), YNumber>>)}
    \cup {YMapping(<<>>),
          YMapping(<<[key |-> "editor", value |-> YString("vim")]>>)}
PathPieces == {"~", "$HOME", "$UNSET", "/tmp", "/x"}
PathInputs == SeqsUpTo(PathPieces, MaxPieces)

InitPure ==
    /\ server = [k \in Sockets |->
                    [gBase |-> 0, gPaneBase |-> 0,
                     sessions |-> [n \in SessionNames |-> NoSession]]]
    /\ configFile = [n \in SessionNames |->
                        [found |-> FALSE, parses |-> FALSE,
                         config |-> Config("", NoRoot, <<>>)]]
    /\ mgr = [p \in Procs |-> [socket_path |-> NoSocketPath, config_dir |-> FALSE]]
    /\ run = [p \in Procs |-> IdleRun]
    /\ ops = [p \in Procs |-> 0]
    /\ faults = 0
    /\ alone = [p \in Procs |-> [on |-> FALSE, srv |-> server]]
    /\ \/ \E pane \in PaneInputs :
            pure = [NoPure EXCEPT !.fn = "commands", !.pane = pane]
       \/ \E path \in PathInputs :
            pure = [NoPure EXCEPT !.fn = "expand_path", !.path = path]
       \/ \E nodes \in SeqsUpTo(PaneNodes, MaxPanes) :
            pure = [NoPure EXCEPT !.fn = "parse", !.nodes = nodes]

\* pane.commands()
ApplyCommands ==
    /\ pure.fn = "commands" /\ ~pure.applied
    /\ pure' = [pure EXCEPT !.applied = TRUE, !.commands = commands(pure.pane)]
    /\ UNCHANGED <<server, configFile, mgr, run, ops, faults, alone>>

\* Self::expand_path(path)
ApplyExpandPath ==
    /\ pure.fn = "expand_path" /\ ~pure.applied
    /\ pure' = [pure EXCEPT !.applied = TRUE, !.expanded = expand_path(pure.path)]
    /\ UNCHANGED <<server, configFile, mgr, run, ops, faults, alone>>

\* serde_yaml::from_str::<WindowLayout>, the panes of the document
ApplyParse ==
    /\ pure.fn = "parse" /\ ~pure.applied
    /\ pure' = [pure EXCEPT !.applied = TRUE, !.parsed = deserialize_panes(pure.nodes)]
    /\ UNCHANGED <<server, configFile, mgr, run, ops, faults, alone>>

NextPure == ApplyCommands \/ ApplyExpandPath \/ ApplyParse

SpecPure == InitPure /\ [][NextPure]_vars

\* ----------------------------------------------- two managers, one server
\* Two managers run start at the same time, each for a session name of its
\* own, on the default server; their calls interleave in every order.  The
\* environment is sound here, so that what a manager gets can be compared
\* with what its calls alone would have got.
ConcNames == {"proj", "project", "other"}
\* the names a manager may be asked to start: no name is open to both
OwnNames(p) == IF p = 1 THEN {"proj"} ELSE {"project", "other"}
ConcDescriptors ==
    { Config("other", <<"/tmp">>,
             <<WinSimple("echo hi"),
               WinWithLayout(<<LEntry("dev", WindowLayout("tiled",
                 <<PaneSimple("a"), PaneSimple("b")>>))>>)>>),
      Config("other", NoRoot, <<WinComplex(<<CEntry("editor", "vim")>>)>>) }

InitConc ==
    /\ \E a \in {b \in Ambient : b.gBase = b.gPaneBase} :
          server = [k \in Sockets |->
                      [gBase |-> a.gBase, gPaneBase |-> a.gPaneBase,
                       sessions |-> [n \in ConcNames |-> NoSession]]]
    /\ \E d1, d2 \in ConcDescriptors :
          configFile = [n \in ConcNames |->
                          [found |-> TRUE, parses |-> TRUE,
                           config |-> IF n \in OwnNames(1) THEN d1 ELSE d2]]
    /\ mgr = [p \in Procs |-> [socket_path |-> NoSocketPath, config_dir |-> FALSE]]
    /\ run = [p \in Procs |-> IdleRun]
    /\ ops = [p \in Procs |-> 0]
    /\ faults = MaxFaults
    /\ alone = [p \in Procs |-> [on |-> TRUE, srv |-> server]]
    /\ pure = NoPure

\* start_session_with_options for a name no other manager has taken
BeginStartOwn(p) ==
    /\ ops[p] = 0
    /\ \E name \in OwnNames(p), attach \in BOOLEAN :
          /\ \A q \in Procs \ {p} : run[q].name # name
          /\ Begin(p, "start", "check_exists", name, attach, FALSE)

StepConc(p) ==
    \/ BeginStartOwn(p)
    \/ CheckExists(p)
    \/ AttachExisting(p)
    \/ NewSession(p)
    \/ SetBaseIndex(p)
    \/ SetPaneBaseIndex(p)
    \/ FirstWindowIndexQuery(p)
    \/ RenameWindow(p)
    \/ NewWindow(p)
    \/ SendKeys(p)
    \/ SendKeysToPane(p)
    \/ SplitWindow(p)
    \/ SelectLayout(p)
    \/ AttachNew(p)

NextConc == \E p \in Procs : StepConc(p)

SpecConc == InitConc /\ [][NextConc]_vars

\* -------------------------------------- two managers, one session name
\* Two managers run start for the same session name at the same time on the
\* default server, with the same descriptor file; their calls interleave in
\* every order, so both may get Absent from the existence check before
\* either has created the session.
InitSame ==
    /\ \E a \in {b \in Ambient : b.gBase = b.gPaneBase} :
          server = [k \in Sockets |->
                      [gBase |-> a.gBase, gPaneBase |-> a.gPaneBase,
                       sessions |-> [n \in SessionNames |-> NoSession]]]
    /\ \E d \in ConcDescriptors :
          configFile = [n \in SessionNames |->
                          [found |-> TRUE, parses |-> TRUE, config |-> d]]
    /\ mgr = [p \in Procs |-> [socket_path |-> NoSocketPath, config_dir |-> FALSE]]
    /\ run = [p \in Procs |-> IdleRun]
    /\ ops = [p \in Procs |-> 0]
    /\ faults = 0
    /\ alone = [p \in Procs |-> [on |-> FALSE, srv |-> server]]
    /\ pure = NoPure

\* start_session_with_options, once by each manager, for any name: with one
\* name in SessionNames both managers start the same session
BeginStartSame(p) ==
    /\ ops[p] = 0
    /\ BeginStart(p)

StepSame(p) ==
    \/ BeginStartSame(p)
    \/ CheckExists(p)
    \/ AttachExisting(p)
    \/ NewSession(p)
    \/ SetBaseIndex(p)
    \/ SetPaneBaseIndex(p)
    \/ FirstWindowIndexQuery(p)
    \/ RenameWindow(p)
    \/ NewWindow(p)
    \/ SendKeys(p)
    \/ SendKeysToPane(p)
    \/ SplitWindow(p)
    \/ SelectLayout(p)
    \/ AttachNew(p)

NextSame == \E p \in Procs : StepSame(p)

SpecSame == InitSame /\ [][NextSame]_vars

\* ------------------------------------------- one start, run twice over
\* Two managers run the same start, one after the other, each on a server
\* of its own: the two servers begin in the same state, the session name,
\* the flags and the descriptor file are the same, and the environment is
\* sound.  What may differ is what is not an input of the run.
InitTwin ==
    /\ \E a \in Ambient, present \in BOOLEAN :
          server = [k \in Sockets |->
                      [gBase |-> a.gBase, gPaneBase |-> a.gPaneBase,
                       sessions |-> [n \in SessionNames |->
                            IF present THEN HandMadeSession(a.gBase)
                            ELSE NoSession]]]
    /\ configFile \in [SessionNames -> ConfigFiles]
    /\ mgr = [p \in Procs |->
                [socket_path |-> IF p = 1 THEN NoSocketPath ELSE "sock",
                 config_dir |-> FALSE]]
    /\ run = [p \in Procs |-> IdleRun]
    /\ ops = [p \in Procs |-> 0]
    /\ faults = MaxFaults
    /\ alone = [p \in Procs |-> [on |-> FALSE, srv |-> server]]
    /\ pure = NoPure

\* start_session_with_options with the arguments of the other manager's call
BeginStartTwin(p) ==
    /\ ops[p] = 0
    /\ \A q \in Procs \ {p} : run[q].pc \in {"idle", "done"}
    /\ \E name \in SessionNames, attach \in BOOLEAN, append \in BOOLEAN :
          /\ \A q \in Procs \ {p} :
                run[q].op = "start" =>
                    /\ run[q].name = name
                    /\ run[q].attach = attach /\ run[q].append = append
          /\ Begin(p, "start", "check_exists", name, attach, append)

StepTwin(p) ==
    \/ BeginStartTwin(p)
    \/ CheckExists(p)
    \/ AttachExisting(p)
    \/ NewSession(p)
    \/ SetBaseIndex(p)
    \/ SetPaneBaseIndex(p)
    \/ FirstWindowIndexQuery(p)
    \/ RenameWindow(p)
    \/ NewWindow(p)
    \/ SendKeys(p)
    \/ SendKeysToPane(p)
    \/ SplitWindow(p)
    \/ SelectLayout(p)
    \/ AttachNew(p)

NextTwin == \E p \in Procs : StepTwin(p)

SpecTwin == InitTwin /\ [][NextTwin]_vars

\* ------------------------------------------------ runs that are not held up
\* A run is sequential code whose only waits are its external calls: when
\* every call returns, a run that has begun takes its next step.  Nothing
\* obliges a manager to begin another operation.
Proceed(p) == run[p].pc \notin {"idle", "done"} /\ Step(p)

\* one server setting and two descriptors that between them need every
\* kind of call; the session is there or not at the start, and calls may fail
InitFair ==
    /\ \E present \in BOOLEAN :
          server = [k \in Sockets |->
                      [gBase |-> 0, gPaneBase |-> 0,
                       sessions |-> [n \in SessionNames |->
                            IF present THEN HandMadeSession(0) ELSE NoSession]]]
    /\ \E d \in {c \in Descriptors : c.root \in {<<"~", "/x", "$UNSET">>,
                                                  <<"$HOME", "/x">>}} :
          configFile = [n \in SessionNames |->
                          [found |-> TRUE, parses |-> TRUE, config |-> d]]
    /\ mgr = [p \in Procs |-> [socket_path |-> NoSocketPath, config_dir |-> FALSE]]
    /\ run = [p \in Procs |-> IdleRun]
    /\ ops = [p \in Procs |-> 0]
    /\ faults = 0
    /\ alone = [p \in Procs |-> [on |-> FALSE, srv |-> server]]
    /\ pure = NoPure

SpecFair == InitFair /\ [][Next]_vars /\ WF_vars(Proceed(1))

\* ------------------------------------------------------- claims: vocabulary
TheServer(p) == server[ServerOf(has_session("", Sock(p)))]
Sess(p) == TheServer(p).sessions[run[p].name]
Log(p) == run[p].log
Count(p, ops_) == Cardinality({i \in DOMAIN Log(p) : Log(p)[i].cmd.op \in ops_})
\* what session_exists_with_socket answers in the current state
ExistsNow(p) ==
    session_exists_with_socket(
        execute(Spawn(server, has_session(run[p].name, Sock(p)), "none"))).num = 1
Loaded(p) == LoadConfig(configFile[run[p].name], mgr[p].config_dir).ok
RECURSIVE PaneSum(_)
PaneSum(ws) ==
    IF ws = {} THEN 0
    ELSE LET w == CHOOSE x \in ws : TRUE IN Len(w.panes) + PaneSum(ws \ {w})
TotalPanes(s) == PaneSum(s.windows)
PaneIndexes(srv, w) == {k - 1 + EffPaneBase(srv, w) : k \in 1..Len(w.panes)}

\* the sizes of a descriptor, read off the document
EntryCount(wc) == IF wc.kind = "Simple" THEN 1 ELSE Len(wc.window)
NumWindows(cfg) ==
    SeqSum([i \in 1..Len(cfg.windows) |-> EntryCount(cfg.windows[i])])
LayoutEntries(cfg) ==
    UNION {{cfg.windows[i].window[j] : j \in 1..Len(cfg.windows[i].window)} :
            i \in {k \in 1..Len(cfg.windows) : cfg.windows[k].kind = "WithLayout"}}
SplitsOf(wc) ==
    IF wc.kind # "WithLayout" THEN 0
    ELSE SeqSum([j \in 1..Len(wc.window) |-> Len(wc.window[j].panes) - 1])
NumSplits(cfg) == SeqSum([i \in 1..Len(cfg.windows) |-> SplitsOf(cfg.windows[i])])
SendsOfEntry(kind, e) ==
    IF kind = "WithLayout"
    THEN SeqSum([k \in 1..Len(e.panes) |-> Len(commands(e.panes[k]))])
    ELSE IF IsBlank(e.command) THEN 0 ELSE 1
SendsOf(wc) ==
    IF wc.kind = "Simple" THEN (IF IsBlank(wc.command) THEN 0 ELSE 1)
    ELSE SeqSum([j \in 1..Len(wc.window) |-> SendsOfEntry(wc.kind, wc.window[j])])
NumSends(cfg) == SeqSum([i \in 1..Len(cfg.windows) |-> SendsOf(cfg.windows[i])])
NoEmptyLayout(cfg) ==
    \A i \in 1..Len(cfg.windows) :
        cfg.windows[i].kind = "WithLayout" =>
            \A j \in 1..Len(cfg.windows[i].window) :
                cfg.windows[i].window[j].panes # <<>>

\* ------------------------------------------------------------------ claims
\* C1: start with attach=false, append=false on a session the existence
\* check reports Present ends at once with a success whose text contains
\* "already exists"; the run issued no mutating command and no attach, and
\* the servers are as they were before the call.
C1_AlreadyExistsNoMutation ==
    \A p \in Procs :
        (run[p].op = "start" /\ run[p].exists = 1
            /\ ~run[p].attach /\ ~run[p].append) =>
            /\ run[p].pc = "done"
            /\ run[p].result.ok
            /\ ContainsPhrase(run[p].result.text, <<"already", "exists">>)
            /\ \A i \in DOMAIN Log(p) :
                  Log(p)[i].cmd.op \notin MutatingOps \cup {"attach-session"}
            /\ server = run[p].before

\* the second of two starts with the same descriptor: the first built the
\* three windows of the descriptor
C1_Witness ==
    \E p \in Procs :
        /\ run[p].op = "start" /\ run[p].exists = 1
        /\ ~run[p].attach /\ ~run[p].append /\ run[p].pc = "done"
        /\ ops[p] = 2
        /\ Cardinality(Sess(p).windows) = 3
        /\ NumWindows(configFile[run[p].name].config) = 3

\* C2: start with append=true on a session reported Present returns the
\* fixed "not implemented" error, whatever attach is; nothing is mutated and
\* no attach is attempted.
C2_AppendNotImplemented ==
    \A p \in Procs :
        (run[p].op = "start" /\ run[p].exists = 1 /\ run[p].append) =>
            /\ run[p].pc = "done"
            /\ ~run[p].result.ok
            /\ run[p].result.kind = "TmuxError"
            /\ run[p].result.text =
                  <<"Append", "functionality", "not", "yet", "implemented">>
            /\ \A i \in DOMAIN Log(p) :
                  Log(p)[i].cmd.op \notin MutatingOps \cup {"attach-session"}
            /\ server = run[p].before

C2_Witness ==
    \E p \in Procs :
        /\ run[p].op = "start" /\ run[p].exists = 1
        /\ run[p].append /\ run[p].attach /\ run[p].pc = "done"
        /\ ~run[p].result.ok

\* C3: start with append=false, attach=true on a session reported Present
\* issues, after the existence check, one attach and nothing else; a
\* successful attach ends the run with a success, a failed one with an error
\* whose text contains "Failed to attach" and the session name; the servers
\* are untouched.
C3_AttachExisting ==
    \A p \in Procs :
        (run[p].op = "start" /\ run[p].exists = 1
            /\ ~run[p].append /\ run[p].attach) =>
            /\ Len(Log(p)) <= 2
            /\ \A i \in 2..Len(Log(p)) : Log(p)[i].cmd.op = "attach-session"
            /\ server = run[p].before
            /\ run[p].pc = "done" =>
                  /\ Len(Log(p)) = 2
                  /\ Log(p)[2].ok => run[p].result.ok
                  /\ ~Log(p)[2].ok =>
                        /\ ~run[p].result.ok
                        /\ ContainsPhrase(run[p].result.text,
                                          <<"Failed", "to", "attach">>)
                        /\ ContainsPhrase(run[p].result.text, <<run[p].name>>)

\* the attach was tried from a process without a terminal and failed
C3_Witness ==
    \E p \in Procs :
        /\ run[p].op = "start" /\ run[p].exists = 1
        /\ ~run[p].append /\ run[p].attach /\ run[p].pc = "done"
        /\ Len(Log(p)) = 2 /\ ~Log(p)[2].ok /\ ~Log(p)[2].spawned
        /\ ~run[p].result.ok

\* C4: when the existence check reports Absent and the descriptor loads,
\* the call that follows is new-session for every attach and append: the
\* flags choose nothing here, and append=true does not give the "not
\* implemented" error.
C4_AbsentCreates ==
    \A p \in Procs :
        (run[p].op = "start" /\ run[p].exists = 0 /\ Loaded(p)) =>
            /\ run[p].pc # "attach_existing"
            /\ Len(Log(p)) = 1 => run[p].pc = "new_session"
            /\ Len(Log(p)) >= 2 => Log(p)[2].cmd.op = "new-session"
            /\ ~ContainsPhrase(run[p].result.text,
                               <<"not", "yet", "implemented">>)

C4_Witness ==
    \E p \in Procs :
        /\ run[p].op = "start" /\ run[p].exists = 0 /\ run[p].append
        /\ Len(Log(p)) >= 2 /\ Log(p)[2].cmd.op = "new-session" /\ Log(p)[2].ok
        /\ Sess(p).present

\* C5: in a start, once a call of the materialization sequence has failed
\* no further call is issued and the run returns that failure; no kill is
\* ever issued; what the earlier calls created is still on the server.
C5_FailFastNoRollback ==
    \A p \in Procs :
        (run[p].op = "start" /\ run[p].exists = 0) =>
            /\ \A i \in 2..(Len(Log(p)) - 1) : Log(p)[i].ok
            /\ \A i \in DOMAIN Log(p) : Log(p)[i].cmd.op # "kill-session"
            /\ (Len(Log(p)) >= 2 /\ ~Log(p)[Len(Log(p))].ok) =>
                  /\ run[p].pc = "done"
                  /\ ~run[p].result.ok
                  /\ Log(p)[Len(Log(p))].cmd.op # "attach-session" =>
                        /\ run[p].result.kind = "TmuxError"
                        /\ run[p].result.text = Log(p)[Len(Log(p))].text
            /\ (Len(Log(p)) >= 2 /\ Log(p)[2].ok) =>
                  /\ Sess(p).present
                  /\ Cardinality(Sess(p).windows) = 1 + Count(p, {"new-window"})
                        - (IF Log(p)[Len(Log(p))].cmd.op = "new-window"
                              /\ ~Log(p)[Len(Log(p))].ok THEN 1 ELSE 0)
                  /\ TotalPanes(Sess(p)) =
                        Cardinality(Sess(p).windows) + Count(p, {"split-window"})
                        - (IF Log(p)[Len(Log(p))].cmd.op = "split-window"
                              /\ ~Log(p)[Len(Log(p))].ok THEN 1 ELSE 0)

\* a split failed after a second window and a pane had been made: the run
\* is over with the error and the partial session is on the server
C5_Witness ==
    \E p \in Procs :
        /\ run[p].op = "start" /\ run[p].pc = "done" /\ ~run[p].result.ok
        /\ Len(Log(p)) >= 2
        /\ Log(p)[Len(Log(p))].cmd.op \in {"split-window", "send-keys"}
        /\ ~Log(p)[Len(Log(p))].ok
        /\ Sess(p).present
        /\ Cardinality(Sess(p).windows) >= 2

\* C6: on the fresh-session path an attach is the last call, it comes after
\* every window, split and command of the descriptor has been issued with
\* success, and when it fails the run returns "Started session <name> but
\* failed to attach", the session is still there and the existence check
\* answers true.
C6_AttachAfterWindows ==
    \A p \in Procs :
        \A i \in DOMAIN Log(p) :
            (run[p].op = "start" /\ run[p].exists = 0
                /\ Log(p)[i].cmd.op = "attach-session") =>
                /\ i = Len(Log(p))
                /\ run[p].attach
                /\ \A j \in 2..(i - 1) : Log(p)[j].ok
                /\ Count(p, {"rename-window", "new-window"})
                      = NumWindows(run[p].config)
                /\ Count(p, {"split-window"}) = NumSplits(run[p].config)
                /\ Count(p, {"send-keys"}) = NumSends(run[p].config)
                /\ NoEmptyLayout(run[p].config)
                /\ ~Log(p)[i].ok =>
                      /\ run[p].pc = "done"
                      /\ ~run[p].result.ok
                      /\ ContainsPhrase(run[p].result.text,
                            <<"Started", "session", run[p].name, "but",
                              "failed", "to", "attach:">>)
                      /\ Sess(p).present
                      /\ ExistsNow(p)

C6_Witness ==
    \E p \in Procs :
        /\ run[p].op = "start" /\ run[p].exists = 0 /\ run[p].pc = "done"
        /\ Log(p)[Len(Log(p))].cmd.op = "attach-session"
        /\ ~Log(p)[Len(Log(p))].ok
        /\ Cardinality(Sess(p).windows) = 3

\* C7 as stated: for an Absent session whose descriptor loaded and
\* attach=false, when every call after the existence check succeeded, start
\* returns a success whose text
\* contains "Started" and the existence check then answers true; with one
\* Simple window whose command is not blank the session has one window and
\* that command was sent to it once.
SingleSimple(cfg) ==
    /\ Len(cfg.windows) = 1
    /\ cfg.windows[1].kind = "Simple"
    /\ ~IsBlank(cfg.windows[1].command)
C7_Started(p) ==
    /\ run[p].result.ok
    /\ ContainsPhrase(run[p].result.text, <<"Started">>)
    /\ ExistsNow(p)
    /\ SingleSimple(run[p].config) =>
          /\ Cardinality(Sess(p).windows) = 1
          /\ \A w \in Sess(p).windows :
                /\ Len(w.panes) = 1
                /\ w.panes[1].input = <<run[p].config.windows[1].command>>
          /\ Count(p, {"send-keys"}) = 1
C7_AsStated ==
    \A p \in Procs :
        (run[p].op = "start" /\ run[p].pc = "done" /\ run[p].exists = 0
            /\ ~run[p].attach /\ Loaded(p)
            /\ \A i \in 2..Len(Log(p)) : Log(p)[i].ok)
        => C7_Started(p)

\* C7 amended: the same, for a descriptor that has no Layout window with an
\* empty panes list.
C7_StartedDetached ==
    \A p \in Procs :
        (run[p].op = "start" /\ run[p].pc = "done" /\ run[p].exists = 0
            /\ ~run[p].attach
            /\ Loaded(p) /\ NoEmptyLayout(configFile[run[p].name].config)
            /\ \A i \in 2..Len(Log(p)) : Log(p)[i].ok)
        => C7_Started(p)

C7_Witness ==
    \E p \in Procs :
        /\ run[p].op = "start" /\ run[p].pc = "done" /\ run[p].exists = 0
        /\ ~run[p].attach /\ run[p].result.ok
        /\ SingleSimple(run[p].config)
        /\ \E w \in Sess(p).windows : w.panes[1].input = <<"echo hi">>

\* C8: after a start that succeeded, every Layout window of the descriptor
\* with n panes is on the server with exactly n panes whose indices are
\* 0..n-1, made by n-1 split-window calls, whatever base-index and
\* pane-base-index the server had.
C8_LayoutPanes ==
    \A p \in Procs :
        (run[p].op = "start" /\ run[p].pc = "done" /\ run[p].exists = 0
            /\ run[p].result.ok) =>
            \A e \in LayoutEntries(run[p].config) :
                /\ Cardinality({i \in DOMAIN Log(p) :
                        /\ Log(p)[i].cmd.op = "split-window"
                        /\ Log(p)[i].cmd.window = e.name}) = Len(e.panes) - 1
                /\ \E w \in Sess(p).windows :
                        /\ w.name = e.name
                        /\ Len(w.panes) = Len(e.panes)
                        /\ PaneIndexes(TheServer(p), w) = 0..(Len(e.panes) - 1)

\* C9 as stated: stop_session on an absent session returns "Session <name>
\* does not exist" and issues no kill-session; on a present session it
\* issues one kill-session and returns "Stopped session <name>", and the
\* session is gone.
C9_Absent(p) ==
    /\ run[p].pc = "done"
    /\ ~run[p].result.ok
    /\ ContainsPhrase(run[p].result.text,
                      <<"Session", run[p].name, "does", "not", "exist">>)
    /\ Count(p, {"kill-session"}) = 0
C9_AsStated ==
    \A p \in Procs :
        /\ (run[p].op = "stop" /\ run[p].exists = 0) => C9_Absent(p)
        /\ (run[p].op = "stop" /\ run[p].exists = 1 /\ run[p].pc = "done") =>
              /\ Count(p, {"kill-session"}) = 1
              /\ run[p].result.ok
              /\ run[p].result.text = <<"Stopped", "session", run[p].name>>
              /\ ~ExistsNow(p)

\* C9 amended: on a present session stop_session issues one kill-session;
\* when that call succeeds it returns "Stopped session <name>" and the
\* session is gone, when it fails it returns that failure.
C9_Stop ==
    \A p \in Procs :
        /\ (run[p].op = "stop" /\ run[p].exists = 0) => C9_Absent(p)
        /\ (run[p].op = "stop" /\ run[p].exists = 1 /\ run[p].pc = "done") =>
              /\ Len(Log(p)) = 2
              /\ Log(p)[2].cmd.op = "kill-session"
              /\ Log(p)[2].ok =>
                    /\ run[p].result.ok
                    /\ run[p].result.text = <<"Stopped", "session", run[p].name>>
                    /\ ~Sess(p).present
                    /\ ~ExistsNow(p)
              /\ ~Log(p)[2].ok =>
                    /\ ~run[p].result.ok
                    /\ run[p].result.text = Log(p)[2].text

\* a session with a window of several panes, as start builds it, was stopped
C9_Witness ==
    \E p \in Procs :
        /\ run[p].op = "stop" /\ run[p].pc = "done" /\ run[p].result.ok
        /\ ~Sess(p).present
        /\ \E w \in run[p].before[ServerOf(has_session("", Sock(p)))]
                        .sessions[run[p].name].windows : Len(w.panes) >= 2

\* C10: session_exists answers true exactly when has-session succeeded, and
\* false, never an error, when it failed for whatever reason; the servers
\* are not changed by it.
C10_SessionExists ==
    \A p \in Procs :
        (run[p].op = "exists" /\ run[p].pc = "done") =>
            /\ run[p].result.ok
            /\ Len(Log(p)) = 1
            /\ Log(p)[1].cmd.op = "has-session"
            /\ run[p].result.num = (IF Log(p)[1].ok THEN 1 ELSE 0)
            /\ Log(p)[1].ok <=> run[p].before[ServerOf(Log(p)[1].cmd)]
                                    .sessions[run[p].name].present
                                /\ Log(p)[1].fault = "none"
            /\ server = run[p].before

\* has-session could not even be spawned, for a session that is there
C10_Witness ==
    \E p \in Procs :
        /\ run[p].op = "exists" /\ run[p].pc = "done"
        /\ ~Log(p)[1].spawned
        /\ Sess(p).present
        /\ run[p].result.ok /\ run[p].result.num = 0

C12_AsStated ==
    \A p \in Procs : \A i \in DOMAIN Log(p) :
        (Log(p)[i].cmd.op # "attach-session" /\ Log(p)[i].spawned) =>
            /\ Log(p)[i].ok <=> Log(p)[i].exit = 0
            /\ Log(p)[i].ok => Log(p)[i].text = Log(p)[i].out
            /\ ~Log(p)[i].ok =>
                  /\ Log(p)[i].kind = "TmuxError"
                  /\ Log(p)[i].text = Log(p)[i].err

\* C12 amended: the same, the text being the captured bytes read as UTF-8
\* with every invalid sequence replaced by U+FFFD; it is the captured text
\* itself whenever that is UTF-8.
C12_ExitMapping ==
    \A p \in Procs : \A i \in DOMAIN Log(p) :
        (Log(p)[i].cmd.op # "attach-session" /\ Log(p)[i].spawned) =>
            /\ Log(p)[i].ok <=> Log(p)[i].exit = 0
            /\ Log(p)[i].ok => Log(p)[i].text = from_utf8_lossy(Log(p)[i].out)
            /\ ~Log(p)[i].ok =>
                  /\ Log(p)[i].kind = "TmuxError"
                  /\ Log(p)[i].text = from_utf8_lossy(Log(p)[i].err)
                  /\ (\A k \in DOMAIN Log(p)[i].err :
                            Log(p)[i].err[k] \notin InvalidUtf8)
                        => Log(p)[i].text = Log(p)[i].err

\* the server refused a command of a start: exit status 1 and its message
C12_Witness ==
    \E p \in Procs : \E i \in DOMAIN Log(p) :
        /\ run[p].op = "start"
        /\ Log(p)[i].spawned /\ Log(p)[i].exit = 1 /\ Log(p)[i].fault = "none"
        /\ Log(p)[i].text = <<"can't", "find", "session:", run[p].name>>
        /\ \E j \in DOMAIN Log(p) : Log(p)[j].exit = 0 /\ Log(p)[j].ok

\* C13: an attach made from a process without a terminal spawns no tmux
\* process: the call returns at once the error "Failed to attach: No TTY
\* available", it is the last call of the run, and the run is over.
C13_NoTtyNoSpawn ==
    \A p \in Procs : \A i \in DOMAIN Log(p) :
        (Log(p)[i].cmd.op = "attach-session" /\ ~Log(p)[i].tty) =>
            /\ ~Log(p)[i].spawned
            /\ ~Log(p)[i].ok
            /\ Log(p)[i].kind = "TmuxError"
            /\ ContainsPhrase(Log(p)[i].text, <<"No", "TTY", "available">>)
            /\ i = Len(Log(p))
            /\ run[p].pc = "done" /\ ~run[p].result.ok

\* a session was built and the attach asked for had no terminal
C13_Witness ==
    \E p \in Procs :
        /\ run[p].op = "start" /\ run[p].exists = 0 /\ run[p].pc = "done"
        /\ Len(Log(p)) >= 2
        /\ Log(p)[Len(Log(p))].cmd.op = "attach-session"
        /\ ~Log(p)[Len(Log(p))].tty /\ ~Log(p)[Len(Log(p))].spawned
        /\ Sess(p).present

\* C14: every call of a start or a stop carries the socket of its manager,
\* -S <socket> when the manager has one and none when it has not; the server
\* of the other socket is as it was when the operation began.
C14_SocketThreading ==
    \A p \in Procs :
        /\ \A i \in DOMAIN Log(p) : Log(p)[i].cmd.socket = mgr[p].socket_path
        /\ run[p].op # "none" =>
              \A k \in Sockets :
                  k # ServerOf(has_session("", Sock(p))) =>
                      server[k] = run[p].before[k]

\* a manager with a socket has built a window of several panes with a layout
\* on the server of that socket
C14_Witness ==
    \E p \in Procs :
        /\ mgr[p].socket_path = "sock"
        /\ run[p].op = "start" /\ run[p].pc = "done" /\ run[p].result.ok
        /\ Count(p, {"split-window"}) >= 1
        /\ Count(p, {"select-layout"}) >= 1
        /\ Count(p, {"attach-session"}) = 1
        /\ server["sock"] # run[p].before["sock"]
        /\ server[DefaultServer] = run[p].before[DefaultServer]

\* C15: of two starts that run at the same time for different session
\* names on one server, each gets from every call the result its calls
\* alone would have got (so it returns the same result), and its session is
\* as its calls alone would have made it, in every interleaving.
OwnSession(srv, p) == srv[DefaultServer].sessions[run[p].name]
C15_NoInterference ==
    \A p \in Procs :
        run[p].op = "start" =>
            /\ \A i \in DOMAIN Log(p) :
                  /\ Log(p)[i].ok = Log(p)[i].lone.ok
                  /\ Log(p)[i].text = Log(p)[i].lone.text
                  /\ Log(p)[i].num = Log(p)[i].lone.num
            /\ OwnSession(server, p) = OwnSession(alone[p].srv, p)

\* C15 for names of which neither begins the other
C15_UnrelatedNames ==
    (\A p, q \in Procs : <<run[p].name, run[q].name>> \notin NamePrefixes)
        => C15_NoInterference

\* both starts are over, after calls of the one fell between calls of the
\* other
C15_BothDone ==
    /\ \A p \in Procs : run[p].op = "start" /\ run[p].pc = "done"
                        /\ run[p].result.ok /\ Len(Log(p)) >= 8
    /\ \A p, q \in Procs : <<run[p].name, run[q].name>> \notin NamePrefixes

\* C16 as stated: a start whose descriptor has a Layout window with no
\* panes returns an error.
C16_AsStated ==
    \A p \in Procs :
        (run[p].op = "start" /\ run[p].pc = "done"
            /\ Loaded(p) /\ ~NoEmptyLayout(configFile[run[p].name].config)) =>
            ~run[p].result.ok

\* C16 amended: a start for an Absent session whose descriptor has a Layout
\* window with no panes
\* never ends with a success; when its calls succeed it ends with the error
\* "Window layout must have at least one pane" right after the call that
\* made that window: that call was issued once and no call follows it.
NoPanesText ==
    <<"Window", "layout", "must", "have", "at", "least", "one", "pane">>
C16_NoPanesIsError ==
    \A p \in Procs :
        (run[p].op = "start" /\ run[p].exists = 0 /\ run[p].pc = "done"
            /\ Loaded(p) /\ ~NoEmptyLayout(configFile[run[p].name].config)) =>
            /\ ~run[p].result.ok
            /\ (\A i \in 2..Len(Log(p)) : Log(p)[i].ok) =>
                  /\ run[p].result.kind = "TmuxError"
                  /\ run[p].result.text = NoPanesText
                  /\ Log(p)[Len(Log(p))].cmd.op \in {"rename-window", "new-window"}
                  /\ \E e \in LayoutEntries(run[p].config) :
                        /\ e.panes = <<>>
                        /\ Log(p)[Len(Log(p))].cmd.arg = e.name
                        /\ Cardinality({i \in DOMAIN Log(p) :
                                Log(p)[i].cmd.arg = e.name}) = 1
                  /\ Count(p, {"attach-session"}) = 0

\* the window without panes was the second one: the session and both windows
\* are on the server when the error is returned
C16_Witness ==
    \E p \in Procs :
        /\ run[p].op = "start" /\ run[p].exists = 0 /\ run[p].pc = "done"
        /\ run[p].result.text = NoPanesText
        /\ Sess(p).present
        /\ Cardinality(Sess(p).windows) = 2

\* C17 as stated: commands() returns no command for Null and for a Simple
\* blank string, one for a Simple string that is not blank and for a Named
\* pane with one value, and the N entries, in their order, of a Multiple
\* pane or of the list of a Named pane.
IsYString(v) == v.t = "String"
FirstValue(pane) == pane.map[1].value
C17_AsStated ==
    (pure.fn = "commands" /\ pure.applied) =>
        LET pane == pure.pane
            out == pure.commands
        IN /\ pane.kind = "Null" => out = <<>>
           /\ (pane.kind = "Simple" /\ IsBlank(pane.cmd)) => out = <<>>
           /\ (pane.kind = "Simple" /\ ~IsBlank(pane.cmd)) => out = <<pane.cmd>>
           /\ pane.kind = "Multiple" => out = pane.cmds
           /\ (pane.kind = "Named" /\ pane.map # <<>>) =>
                 /\ FirstValue(pane).t = "String" => Len(out) = 1
                 /\ FirstValue(pane).t = "Sequence" =>
                       /\ Len(out) = Len(FirstValue(pane).seq)
                       /\ \A i \in DOMAIN out : out[i] = FirstValue(pane).seq[i].s

\* C17 amended: a Named pane counts by the value of the entry its map yields
\* first: a string that is not blank gives that one command, a blank string
\* gives none, a list gives its string entries in their order (entries that
\* are no strings are left out), any other value and an empty map give none.
C17_CommandsLength ==
    (pure.fn = "commands" /\ pure.applied) =>
        LET pane == pure.pane
            out == pure.commands
        IN /\ pane.kind = "Null" => out = <<>>
           /\ (pane.kind = "Simple" /\ IsBlank(pane.cmd)) => out = <<>>
           /\ (pane.kind = "Simple" /\ ~IsBlank(pane.cmd)) => out = <<pane.cmd>>
           /\ pane.kind = "Multiple" => out = pane.cmds
           /\ (pane.kind = "Named" /\ pane.map = <<>>) => out = <<>>
           /\ (pane.kind = "Named" /\ pane.map # <<>>) =>
                 /\ (FirstValue(pane).t = "String" /\ ~IsBlank(FirstValue(pane).s))
                       => out = <<FirstValue(pane).s>>
                 /\ (FirstValue(pane).t = "String" /\ IsBlank(FirstValue(pane).s))
                       => out = <<>>
                 /\ FirstValue(pane).t = "Sequence" =>
                       LET strs == SelectSeq(FirstValue(pane).seq, IsYString)
                       IN out = [i \in 1..Len(strs) |-> strs[i].s]
                 /\ FirstValue(pane).t \notin {"String", "Sequence"}
                       => out = <<>>

\* a Named pane whose list holds a number between two commands
C17_Witness ==
    /\ pure.fn = "commands" /\ pure.applied
    /\ pure.pane.kind = "Named" /\ pure.pane.map # <<>>
    /\ FirstValue(pure.pane) = YSequence(<<YString("a"), YNumber>>)
    /\ pure.commands = <<"a">>

\* C18: no command that commands() returns is empty or only white space.
C18_NoBlankCommand ==
    (pure.fn = "commands" /\ pure.applied) =>
        \A i \in DOMAIN pure.commands : ~IsBlank(pure.commands[i])

\* C18, its consequence: no send-keys of a start carries a blank command
C18_NoBlankSent ==
    \A p \in Procs : \A i \in DOMAIN Log(p) :
        Log(p)[i].cmd.op = "send-keys" => ~IsBlank(Log(p)[i].cmd.arg)

\* C19: expand_path returns a path for every input: the variables and the
\* tilde expanded when every variable is defined, and otherwise the input
\* with only its leading tilde expanded, the variable references left as
\* they were written.
C19_ExpandNeverFails ==
    (pure.fn = "expand_path" /\ pure.applied) =>
        LET path == pure.path
            out == pure.expanded
            tilde == path # <<>> /\ path[1] = "~"
        IN /\ out.ok
           /\ Len(out.text) = Len(path)
           /\ (\E i \in DOMAIN path : path[i] = "$UNSET") =>
                 /\ \A i \in DOMAIN path :
                        (i > 1 \/ ~tilde) => out.text[i] = path[i]
                 /\ (tilde /\ (Len(path) = 1 \/ path[2] \in {"/tmp", "/x"}))
                        => out.text[1] = HomeDir
           /\ (\A i \in DOMAIN path : path[i] # "$UNSET") =>
                 /\ \A i \in DOMAIN path :
                        /\ path[i] = "$HOME" => out.text[i] = HomeDir
                        /\ path[i] \in {"/tmp", "/x"} => out.text[i] = path[i]
                 /\ (tilde /\ (Len(path) = 1 \/ path[2] # "~"))
                        => out.text[1] = HomeDir

\* C19, its consequence: a start whose descriptor loaded, for an absent
\* session, goes on to new-session whatever the root is
C19_StartReachesNewSession ==
    \A p \in Procs :
        (run[p].op = "start" /\ run[p].exists = 0 /\ Loaded(p)) =>
            /\ Len(Log(p)) = 1 => run[p].pc = "new_session"
            /\ Len(Log(p)) >= 2 => Log(p)[2].cmd.op = "new-session"

\* a root with a tilde and a variable that is not defined
C19_Witness ==
    /\ pure.fn = "expand_path" /\ pure.applied
    /\ pure.path = <<"~", "$UNSET">>
    /\ pure.expanded.ok
    /\ pure.expanded.text = <<"~", "$UNSET">>

\* C20 as stated: the session is created detached, in the resolved root,
\* under the name `root`.
ResolvedRoot(cfg) ==
    CASE cfg.root = NoRoot -> <<HomeDir>>
      [] cfg.root = <<"/tmp">> -> <<"/tmp">>
      [] cfg.root = <<"$HOME", "/x">> -> <<HomeDir, "/x">>
      [] cfg.root = <<"~", "/x", "$UNSET">> -> <<HomeDir, "/x", "$UNSET">>
C20_Created(p) ==
    /\ Log(p)[2].cmd.op = "new-session"
    /\ Log(p)[2].cmd.arg = "-d"
    /\ Log(p)[2].cmd.dir = ResolvedRoot(configFile[run[p].name].config)
    /\ Log(p)[2].ok =>
          /\ Sess(p).present
          /\ ~Sess(p).attached
          /\ Sess(p).cwd = ResolvedRoot(configFile[run[p].name].config)
C20_AsStated ==
    \A p \in Procs :
        (run[p].op = "start" /\ run[p].exists = 0 /\ Len(Log(p)) >= 2) =>
            /\ C20_Created(p)
            /\ <<Log(p)[2].cmd.session>> = configFile[run[p].name].config.root

\* C20 amended: under the session name start was called for, which is not
\* the root and need not be the name written in the descriptor.
C20_NewSession ==
    \A p \in Procs :
        (run[p].op = "start" /\ run[p].exists = 0 /\ Len(Log(p)) >= 2) =>
            /\ C20_Created(p)
            /\ Log(p)[2].cmd.session = run[p].name

\* a descriptor without root: the session is in the home directory
C20_Witness ==
    \E p \in Procs :
        /\ run[p].op = "start" /\ run[p].exists = 0 /\ Len(Log(p)) >= 2
        /\ Log(p)[2].ok
        /\ configFile[run[p].name].config.root = NoRoot
        /\ Sess(p).cwd = <<HomeDir>> /\ ~Sess(p).attached

\* C21: in every run of start no new-window and no split-window carries a
\* command; every send-keys ends with Enter and comes after the successful
\* rename-window or new-window that made the window it names and, for a
\* pane other than the first, after a successful split-window of that
\* window; no pane of the run's session was created with a command, and no
\* keys are left in a pane without their Enter.
C21_TwoPhase ==
    \A p \in Procs :
        run[p].op = "start" =>
            /\ \A i \in DOMAIN Log(p) :
                  LET c == Log(p)[i].cmd IN
                  /\ c.op \in {"new-window", "split-window"} => c.command = ""
                  /\ c.op = "send-keys" =>
                        /\ c.enter
                        /\ \E j \in 1..(i - 1) :
                              /\ Log(p)[j].cmd.op \in {"rename-window", "new-window"}
                              /\ Log(p)[j].cmd.arg = c.window
                              /\ Log(p)[j].ok
                              /\ c.pane >= 1 =>
                                    \E k \in (j + 1)..(i - 1) :
                                        /\ Log(p)[k].cmd.op = "split-window"
                                        /\ Log(p)[k].cmd.window = c.window
                                        /\ Log(p)[k].ok
            /\ \A w \in Sess(p).windows :
                  \A k \in DOMAIN w.panes :
                      w.panes[k].start = "" /\ w.panes[k].typed = <<>>

\* a run that made a second window, split it and sent a command to the pane
\* of the split
C21_Witness ==
    \E p \in Procs :
        /\ run[p].op = "start" /\ run[p].pc = "done" /\ run[p].result.ok
        /\ Count(p, {"new-window"}) >= 1
        /\ \E i \in DOMAIN Log(p) :
              /\ Log(p)[i].cmd.op = "send-keys" /\ Log(p)[i].cmd.pane = 1
              /\ Log(p)[i].ok
        /\ \E w \in Sess(p).windows :
              Len(w.panes) = 2 /\ \E k \in 1..2 : w.panes[k].input = <<"a">>

\* C22: in a run of start for an Absent session the first mutating command
\* is new-session; once it has succeeded the next call is set-option
\* base-index on the run's session and, once that has succeeded, the next is
\* set-option pane-base-index on it; every window, pane, send-keys and
\* layout command comes after both have succeeded, and when one of the two
\* fails it is the last call of the run, which returns its error.
WindowOps ==
    {"list-windows", "rename-window", "new-window", "split-window",
     "send-keys", "select-layout", "attach-session"}
C22_IsSetOption(p, i, option) ==
    /\ Log(p)[i].cmd.op = "set-option"
    /\ Log(p)[i].cmd.arg = option
    /\ Log(p)[i].cmd.session = run[p].name
C22_IndexNormalization ==
    \A p \in Procs :
        (run[p].op = "start" /\ run[p].exists = 0) =>
            /\ \A i \in DOMAIN Log(p) :
                  /\ Log(p)[i].cmd.op \in MutatingOps =>
                        Log(p)[2].cmd.op = "new-session" /\ i >= 2
                  /\ Log(p)[i].cmd.op = "new-session" => i = 2
                  /\ Log(p)[i].cmd.op \in WindowOps =>
                        /\ i >= 5
                        /\ Log(p)[2].ok /\ Log(p)[3].ok /\ Log(p)[4].ok
            /\ Len(Log(p)) >= 2 /\ Log(p)[2].ok =>
                  IF Len(Log(p)) = 2 THEN run[p].pc = "set_base_index"
                  ELSE C22_IsSetOption(p, 3, "base-index")
            /\ Len(Log(p)) >= 3 /\ Log(p)[3].ok =>
                  IF Len(Log(p)) = 3 THEN run[p].pc = "set_pane_base_index"
                  ELSE C22_IsSetOption(p, 4, "pane-base-index")
            /\ \A i \in {3, 4} \cap DOMAIN Log(p) :
                  ~Log(p)[i].ok =>
                      /\ Len(Log(p)) = i
                      /\ run[p].pc = "done"
                      /\ ~run[p].result.ok
                      /\ run[p].result.text = Log(p)[i].text

\* a run that went on to its windows after both options were set
C22_Witness ==
    \E p \in Procs :
        /\ run[p].op = "start" /\ run[p].exists = 0 /\ run[p].pc = "done"
        /\ Len(Log(p)) >= 7 /\ run[p].result.ok
        /\ C22_IsSetOption(p, 3, "base-index")
        /\ C22_IsSetOption(p, 4, "pane-base-index")
        /\ Sess(p).baseIndex = 0
        /\ Count(p, {"split-window"}) >= 1

\* set-option pane-base-index failed: the run ended there, the session stays
C22_StopsAtFailure ==
    \E p \in Procs :
        /\ run[p].op = "start" /\ run[p].exists = 0 /\ run[p].pc = "done"
        /\ Len(Log(p)) = 4 /\ ~Log(p)[4].ok /\ Sess(p).present

\* C23 as stated: after a run of start for an Absent session that succeeded,
\* the session has exactly as many windows as the descriptor declares and
\* none of them has the server's default name.
C23_AsStated ==
    \A p \in Procs :
        (run[p].op = "start" /\ run[p].exists = 0 /\ run[p].pc = "done"
            /\ run[p].result.ok) =>
            /\ Cardinality(Sess(p).windows) = NumWindows(run[p].config)
            /\ \A w \in Sess(p).windows : w.name # DefaultWindowName

\* the first element of the window list holds a window
FirstIsWindow(cfg) ==
    /\ cfg.windows # <<>>
    /\ cfg.windows[1].kind # "Simple" => cfg.windows[1].window # <<>>
FirstEntryName(cfg) ==
    IF cfg.windows[1].kind = "Simple" THEN WindowName(0)
    ELSE cfg.windows[1].window[1].name

\* C23, amended: when the first element of the descriptor's window list
\* holds a window, the first window call of the run is the query of the
\* initial window's index, the next is the rename-window of the index the
\* server answered, to the name of the descriptor's first window, and that
\* index is where the server put the initial window; a new-window comes only
\* after that rename and there is no other rename; after a run that
\* succeeded the session has as many windows as the descriptor declares,
\* none has the server's default name and the initial window carries the
\* first name.
C23_FirstWindow ==
    \A p \in Procs :
        (run[p].op = "start" /\ run[p].exists = 0 /\ Len(Log(p)) >= 4
            /\ Log(p)[2].ok /\ Log(p)[3].ok /\ Log(p)[4].ok
            /\ FirstIsWindow(run[p].config)) =>
            /\ IF Len(Log(p)) = 4 THEN run[p].pc = "first_window_index"
               ELSE /\ Log(p)[5].cmd.op = "list-windows"
                    /\ Log(p)[5].ok => Log(p)[5].num = TheServer(p).gBase
            /\ \A i \in DOMAIN Log(p) :
                  /\ Log(p)[i].cmd.op = "list-windows" => i = 5
                  /\ Log(p)[i].cmd.op = "rename-window" =>
                        /\ i = 6 /\ Log(p)[5].ok
                        /\ Log(p)[i].cmd.widx = Log(p)[5].num
                        /\ Log(p)[i].cmd.arg = FirstEntryName(run[p].config)
                  /\ Log(p)[i].cmd.op = "new-window" =>
                        /\ i > 6 /\ Log(p)[6].ok
            /\ Len(Log(p)) >= 5 /\ Log(p)[5].ok =>
                  IF Len(Log(p)) = 5 THEN run[p].pc = "rename_window"
                  ELSE Log(p)[6].cmd.op = "rename-window"
            /\ (run[p].pc = "done" /\ run[p].result.ok) =>
                  /\ Count(p, {"new-window"}) = NumWindows(run[p].config) - 1
                  /\ Cardinality(Sess(p).windows) = NumWindows(run[p].config)
                  /\ \A w \in Sess(p).windows : w.name # DefaultWindowName
                  /\ WindowAt(Sess(p), TheServer(p).gBase).name
                        = FirstEntryName(run[p].config)

\* three windows, the first a Named one renamed in place at index 1
C23_Witness ==
    \E p \in Procs :
        /\ run[p].op = "start" /\ run[p].exists = 0 /\ run[p].pc = "done"
        /\ run[p].result.ok
        /\ FirstIsWindow(run[p].config)
        /\ NumWindows(run[p].config) = 3
        /\ TheServer(p).gBase = 1
        /\ Log(p)[6].cmd.op = "rename-window" /\ Log(p)[6].cmd.widx = 1
        /\ WindowAt(Sess(p), 1).name = "editor"
        /\ Count(p, {"new-window"}) = 2

\* the window list begins with an empty map: the initial window is kept
\* under its default name beside the windows of the descriptor
C23_StrayWindow ==
    \E p \in Procs :
        /\ run[p].op = "start" /\ run[p].exists = 0 /\ run[p].pc = "done"
        /\ run[p].result.ok
        /\ run[p].config.windows # <<>> /\ ~FirstIsWindow(run[p].config)
        /\ Cardinality(Sess(p).windows) = NumWindows(run[p].config) + 1
        /\ \E w \in Sess(p).windows : w.name = DefaultWindowName

\* the Layout window of the descriptor with that name, if any
LayoutNamed(cfg, name) == {e \in LayoutEntries(cfg) : e.name = name}
IsPrefix(s, t) == Len(s) <= Len(t) /\ \A j \in DOMAIN s : s[j] = t[j]
\* the keys the run has sent to pane k of a window, in the order of the calls
RECURSIVE KeysSent(_, _, _)
KeysSent(log, window, k) ==
    IF log = <<>> THEN <<>>
    ELSE LET c == log[Len(log)].cmd
             before == KeysSent(SubSeq(log, 1, Len(log) - 1), window, k)
         IN IF c.op = "send-keys" /\ c.window = window /\ c.pane = k
            THEN Append(before, c.arg) ELSE before
\* the commands of the PaneSpec at position k (from 0) of a Layout window
SpecCommands(e, k) ==
    IF k + 1 \in DOMAIN e.panes THEN commands(e.panes[k + 1]) ELSE <<>>
SplitsBefore(p, i, window) ==
    Cardinality({j \in 1..(i - 1) :
        /\ Log(p)[j].cmd.op = "split-window"
        /\ Log(p)[j].cmd.window = window})

\* the calls of C24: a send-keys to pane k of a Layout window comes after
\* exactly k splits of that window, each split is horizontal and carries no
\* command, and the keys sent to pane k are the commands of PaneSpec k, in
\* order
C24_CallOrder ==
    \A p \in Procs :
        (run[p].op = "start" /\ run[p].exists = 0) =>
            \A i \in DOMAIN Log(p) :
                LET c == Log(p)[i].cmd IN
                /\ c.op = "split-window" => c.arg = "-h" /\ c.command = ""
                /\ (c.op = "send-keys" /\ c.pane >= 0) =>
                      /\ c.pane = SplitsBefore(p, i, c.window)
                      /\ \A j \in 1..(i - 1) :
                            (Log(p)[j].cmd.op = "split-window"
                                /\ Log(p)[j].cmd.window = c.window) => Log(p)[j].ok
                      /\ \E e \in LayoutNamed(run[p].config, c.window) :
                            IsPrefix(KeysSent(SubSeq(Log(p), 1, i), c.window, c.pane),
                                     commands(e.panes[c.pane + 1]))

\* C24: in a Layout window the commands of the first PaneSpec are sent to
\* pane 0 of the window and those of the k-th following PaneSpec to pane k,
\* after exactly k command-less horizontal splits, in order; and the pane
\* that receives them is the first pane of the window for the first
\* PaneSpec and the pane the k-th split created for the k-th following one.
C24_PaneTargeting ==
    /\ C24_CallOrder
    /\ \A p \in Procs :
          (run[p].op = "start" /\ run[p].exists = 0) =>
              \A w \in Sess(p).windows :
                  \A e \in LayoutNamed(run[p].config, w.name) :
                      \A k \in DOMAIN w.panes :
                          IsPrefix(w.panes[k].input,
                                   SpecCommands(e, w.panes[k].born))

\* a run that succeeded on a Layout window of two panes
C24_Witness ==
    \E p \in Procs :
        /\ run[p].op = "start" /\ run[p].exists = 0 /\ run[p].pc = "done"
        /\ run[p].result.ok
        /\ \E i \in DOMAIN Log(p) :
              /\ Log(p)[i].cmd.op = "send-keys" /\ Log(p)[i].cmd.pane = 1
              /\ Log(p)[i].ok
              /\ TheServer(p).gPaneBase = 1

\* the layout name the descriptor declares for the window of that name
DeclaredLayout(cfg, name) ==
    IF LayoutNamed(cfg, name) = {} THEN NoLayout
    ELSE (CHOOSE e \in LayoutNamed(cfg, name) : TRUE).layout
\* the calls before call j that made a window (renamed in place or new)
CreationsBefore(p, j) ==
    {i \in 1..(j - 1) : Log(p)[i].cmd.op \in {"rename-window", "new-window"}}
\* the name of the window the run was at just before call j
WindowBefore(p, j) ==
    Log(p)[CHOOSE i \in CreationsBefore(p, j) :
                \A k \in CreationsBefore(p, j) : k <= i].cmd.arg
\* the calls at which the run has left the window before them: a
\* new-window, the attach, and the end of a run without attach
Leaves(p) ==
    {j \in DOMAIN Log(p) : Log(p)[j].cmd.op \in {"new-window", "attach-session"}}
    \cup (IF run[p].pc = "done" /\ run[p].result.ok /\ ~run[p].attach
          THEN {Len(Log(p)) + 1} ELSE {})

\* C25: a select-layout names a Layout window that declares that layout; it
\* is the only one for the window, it comes after all the splits and all
\* the send-keys of the window, no later call names the window and the call
\* after it is the next new-window or the attach; and whenever the run has
\* left a window that declares a layout, the call just before is the
\* select-layout of that window.
C25_SelectLayout ==
    \A p \in Procs :
        (run[p].op = "start" /\ run[p].exists = 0) =>
            /\ \A i \in DOMAIN Log(p) :
                  LET c == Log(p)[i].cmd IN
                  c.op = "select-layout" =>
                      /\ \E e \in LayoutNamed(run[p].config, c.window) :
                            /\ e.layout # NoLayout /\ c.arg = e.layout
                            /\ SplitsBefore(p, i, c.window) = Len(e.panes) - 1
                            /\ \A k \in 0..(Len(e.panes) - 1) :
                                  KeysSent(SubSeq(Log(p), 1, i), c.window, k)
                                      = commands(e.panes[k + 1])
                      /\ \A j \in 1..(i - 1) : Log(p)[j].ok \/ j = 1
                      /\ \A j \in DOMAIN Log(p) \ {i} :
                            ~(Log(p)[j].cmd.op = "select-layout"
                                /\ Log(p)[j].cmd.window = c.window)
                      /\ \A j \in (i + 1)..Len(Log(p)) :
                            /\ Log(p)[j].cmd.window # c.window
                            /\ j = i + 1 =>
                                  Log(p)[j].cmd.op \in {"new-window", "attach-session"}
            /\ \A j \in Leaves(p) :
                  CreationsBefore(p, j) # {} =>
                      (DeclaredLayout(run[p].config, WindowBefore(p, j)) # NoLayout
                          <=> /\ Log(p)[j - 1].cmd.op = "select-layout"
                              /\ Log(p)[j - 1].cmd.window = WindowBefore(p, j)
                              /\ Log(p)[j - 1].ok)

\* a Layout window with a layout name, followed by another window
C25_Witness ==
    \E p \in Procs :
        /\ run[p].op = "start" /\ run[p].exists = 0 /\ run[p].pc = "done"
        /\ run[p].result.ok
        /\ \E i \in DOMAIN Log(p) :
              /\ Log(p)[i].cmd.op = "select-layout"
              /\ Log(p)[i].cmd.arg = "main-vertical"
              /\ Log(p)[i - 1].cmd.op = "split-window"
              /\ Log(p)[i + 1].cmd.op = "new-window"
        /\ \E w \in Sess(p).windows :
              w.layout = "main-vertical" /\ Len(w.panes) = 2

\* a Layout window without a layout name was left with no select-layout
C25_NoLayoutName ==
    \E p \in Procs :
        /\ run[p].op = "start" /\ run[p].exists = 0 /\ run[p].pc = "done"
        /\ run[p].result.ok /\ Count(p, {"select-layout"}) = 0
        /\ Count(p, {"split-window"}) = 1

\* the Simple and Named windows of a descriptor, with the names they get
CommandEntries(cfg) ==
    UNION {IF cfg.windows[i].kind = "Simple"
           THEN {CEntry(WindowName(i - 1), cfg.windows[i].command)}
           ELSE IF cfg.windows[i].kind = "Complex"
           THEN {cfg.windows[i].window[j] : j \in 1..Len(cfg.windows[i].window)}
           ELSE {} : i \in 1..Len(cfg.windows)}

\* the calls of C26: no send-keys names a Simple or Named window whose
\* command is blank, nor a pane whose commands() is empty (Null and blank
\* Simple panes among them)
C26_NoSendIssued ==
    \A p \in Procs :
        (run[p].op = "start" /\ run[p].exists = 0) =>
            \A i \in DOMAIN Log(p) :
                LET c == Log(p)[i].cmd IN
                c.op = "send-keys" =>
                    /\ \A e \in CommandEntries(run[p].config) :
                          (e.name = c.window /\ IsBlank(e.command)) => FALSE
                    /\ \A e \in LayoutNamed(run[p].config, c.window) :
                          /\ c.pane >= 0
                          /\ SpecCommands(e, c.pane) # <<>>
                          /\ e.panes[c.pane + 1].kind # "Null"
                          /\ e.panes[c.pane + 1].kind = "Simple" =>
                                ~IsBlank(e.panes[c.pane + 1].cmd)

\* C26: a Simple or Named window whose command is blank, and a pane whose
\* commands() is empty, gets no send-keys: none is issued for it, and on the
\* server nothing has been entered into it; after a run that succeeded the
\* window and the pane are there.
C26_BareShell ==
    /\ C26_NoSendIssued
    /\ \A p \in Procs :
          (run[p].op = "start" /\ run[p].exists = 0) =>
              /\ \A w \in Sess(p).windows :
                    /\ \A e \in CommandEntries(run[p].config) :
                          (e.name = w.name /\ IsBlank(e.command)) =>
                              \A k \in DOMAIN w.panes : w.panes[k].input = <<>>
                    /\ \A e \in LayoutNamed(run[p].config, w.name) :
                          \A k \in DOMAIN w.panes :
                              SpecCommands(e, w.panes[k].born) = <<>> =>
                                  w.panes[k].input = <<>>
              /\ (run[p].pc = "done" /\ run[p].result.ok) =>
                    /\ \A e \in CommandEntries(run[p].config) :
                          \E w \in Sess(p).windows : w.name = e.name
                    /\ \A e \in LayoutEntries(run[p].config) :
                          \E w \in Sess(p).windows :
                              w.name = e.name /\ Len(w.panes) = Len(e.panes)

\* a run that succeeded on a descriptor with a blank window and one with a
\* Null pane: both are there
C26_Witness ==
    \E p \in Procs :
        /\ run[p].op = "start" /\ run[p].exists = 0 /\ run[p].pc = "done"
        /\ run[p].result.ok
        /\ \E e \in LayoutEntries(run[p].config) :
              /\ \E k \in DOMAIN e.panes : e.panes[k].kind = "Null"
              /\ \E w \in Sess(p).windows :
                    w.name = e.name /\ Len(w.panes) = Len(e.panes)
        /\ Count(p, {"split-window"}) = 1

\* the names of the windows of a descriptor, in document order
RECURSIVE NamesFrom(_, _)
NamesFrom(cfg, i) ==
    IF i > Len(cfg.windows) THEN <<>>
    ELSE (IF cfg.windows[i].kind = "Simple" THEN <<WindowName(i - 1)>>
          ELSE [j \in 1..Len(cfg.windows[i].window) |->
                    cfg.windows[i].window[j].name])
         \o NamesFrom(cfg, i + 1)
WindowNames(cfg) == NamesFrom(cfg, 1)
IsCreation(e) == e.cmd.op \in {"rename-window", "new-window"}
\* the names of the windows the run has made, in the order of the calls
Created(p) ==
    LET made == SelectSeq(Log(p), IsCreation)
    IN [k \in DOMAIN made |-> made[k].cmd.arg]

\* the calls of C27: the windows are made in document order, one call
\* each, and every send-keys, split-window and select-layout names the
\* window made last, so that all calls of a window come before all calls of
\* the next
C27_CallOrder ==
    \A p \in Procs :
        (run[p].op = "start" /\ run[p].exists = 0) =>
            /\ IsPrefix(Created(p), WindowNames(run[p].config))
            /\ (run[p].pc = "done" /\ run[p].result.ok) =>
                  Created(p) = WindowNames(run[p].config)
            /\ \A i \in DOMAIN Log(p) :
                  Log(p)[i].cmd.op \in {"send-keys", "split-window", "select-layout"} =>
                      /\ CreationsBefore(p, i) # {}
                      /\ Log(p)[i].cmd.window = WindowBefore(p, i)

\* C27: the windows are materialized in document order, all calls of a
\* window before all calls of the next, and after a run that succeeded the
\* windows stand on the server in the order of the descriptor: of two of
\* them the one that comes first in the document has the lower window index.
C27_DocumentOrder ==
    /\ C27_CallOrder
    /\ \A p \in Procs :
          (run[p].op = "start" /\ run[p].exists = 0 /\ run[p].pc = "done"
              /\ run[p].result.ok) =>
              \A a, b \in DOMAIN Created(p) :
                  \A wa, wb \in Sess(p).windows :
                      (a < b /\ wa.name = Created(p)[a] /\ wb.name = Created(p)[b]) =>
                          wa.idx < wb.idx

\* a run that made three windows
C27_Witness ==
    \E p \in Procs :
        /\ run[p].op = "start" /\ run[p].exists = 0 /\ run[p].pc = "done"
        /\ run[p].result.ok
        /\ Created(p) = <<"editor", "window-1", "logs">>
        /\ Cardinality(Sess(p).windows) = 3

\* C28 as stated: every client call of a run spawned an external process,
\* or failed because the process could not be started.
C28_AsStated ==
    \A p \in Procs :
        \A i \in DOMAIN Log(p) :
            Log(p)[i].spawned \/ Log(p)[i].fault = "spawn"

\* C28, amended: a client call spawns one external process, except that
\* execute_interactive spawns none when there is no terminal and that a call
\* whose process cannot be started has none; no call is retried: a call that
\* failed is the last call of its run, whose result is an error, unless it
\* is the existence check, which is not made again; and a command issued
\* twice in a run did not fail the first time.
C28_OneProcessNoRetry ==
    \A p \in Procs :
        \A i \in DOMAIN Log(p) :
            /\ Log(p)[i].spawned <=>
                  /\ Log(p)[i].fault # "spawn"
                  /\ Log(p)[i].cmd.op = "attach-session" => Log(p)[i].tty
            /\ ~Log(p)[i].ok =>
                  /\ Log(p)[i].cmd.op # "has-session" =>
                        /\ i = Len(Log(p))
                        /\ run[p].pc = "done" /\ ~run[p].result.ok
                  /\ \A j \in (i + 1)..Len(Log(p)) : Log(p)[j].cmd # Log(p)[i].cmd

\* a run ended by the failure of its fifth call or a later one, made once
C28_Witness ==
    \E p \in Procs :
        /\ run[p].pc = "done" /\ ~run[p].result.ok
        /\ Len(Log(p)) >= 5
        /\ ~Log(p)[Len(Log(p))].ok /\ Log(p)[Len(Log(p))].spawned
        /\ Log(p)[Len(Log(p))].cmd.op = "new-window"
        /\ \A j \in 1..(Len(Log(p)) - 1) :
              Log(p)[j].cmd # Log(p)[Len(Log(p))].cmd

\* what start returns for a session reported Present: a function of the
\* flags and of the attach call, in which no configuration file appears
C29_PresentResult(p) ==
    IF run[p].append
    THEN Err("TmuxError",
             <<"Append", "functionality", "not", "yet", "implemented">>)
    ELSE IF ~run[p].attach
    THEN Ok(<<"Session", run[p].name, "already", "exists">>, -1)
    ELSE IF Log(p)[2].ok
    THEN Ok(<<"Attached", "to", "existing", "session", run[p].name>>, -1)
    ELSE Err("TmuxError",
             <<"Failed", "to", "attach", "to", "session", run[p].name>>
             \o Display(Err("TmuxError", Log(p)[2].text)))

\* the existence check of the run has been made: has-session succeeds for a
\* session that is Present and fails for one that is Absent
C29_Answered(p) == Log(p) # <<>> /\ Log(p)[1].cmd.op = "has-session"

\* C29: a run of start holds a descriptor only after its existence check
\* has answered Absent; for a session reported Present the result is the one
\* the flags and the attach call determine, whatever the configuration file
\* is; for a session reported Absent whose configuration file is missing or
\* does not parse, the run has ended with the error of the load, its only
\* call is the existence check and the servers are as they were.
C29_LoadAfterCheck ==
    \A p \in Procs :
        run[p].op = "start" =>
            /\ run[p].config # IdleRun.config =>
                  /\ run[p].exists = 0
                  /\ Log(p)[1].cmd.op = "has-session"
                  /\ \E seed \in HashSeeds :
                        run[p].config
                            = parse_file(configFile[run[p].name].config, seed)
            /\ (C29_Answered(p) /\ Log(p)[1].ok /\ run[p].pc = "done") =>
                  /\ run[p].exists = 1
                  /\ run[p].result = C29_PresentResult(p)
                  /\ run[p].config = IdleRun.config
            /\ (C29_Answered(p) /\ ~Log(p)[1].ok /\ ~Loaded(p)) =>
                  /\ run[p].pc = "done"
                  /\ run[p].result
                        = LoadConfig(configFile[run[p].name], mgr[p].config_dir)
                  /\ Len(Log(p)) = 1
                  /\ server = run[p].before

\* "already exists" for a session whose configuration file does not parse
C29_Witness ==
    \E p \in Procs :
        /\ run[p].op = "start" /\ run[p].exists = 1 /\ run[p].pc = "done"
        /\ configFile[run[p].name].found /\ ~configFile[run[p].name].parses
        /\ run[p].result.ok
        /\ ContainsPhrase(run[p].result.text, <<"already", "exists">>)

\* Absent and no configuration file: the error, and no session
C29_AbsentNoConfig ==
    \E p \in Procs :
        /\ run[p].op = "start" /\ run[p].exists = 0 /\ run[p].pc = "done"
        /\ ~configFile[run[p].name].found
        /\ run[p].result.kind = "ConfigNotFound"
        /\ ~Sess(p).present

\* C30: when start returns the zero-pane error, new-session and both
\* set-options have succeeded, the last call of the run is the successful
\* rename-window or new-window of a Layout window without panes, the windows
\* before it in the document have been made, and the session is on the
\* server with every window the run made, that window among them.
C30_ZeroPaneLate ==
    \A p \in Procs :
        (run[p].op = "start" /\ run[p].pc = "done" /\ ~run[p].result.ok
            /\ run[p].result.text = NoPanesText) =>
            /\ Len(Log(p)) >= 5
            /\ Log(p)[2].cmd.op = "new-session" /\ Log(p)[2].ok
            /\ C22_IsSetOption(p, 3, "base-index") /\ Log(p)[3].ok
            /\ C22_IsSetOption(p, 4, "pane-base-index") /\ Log(p)[4].ok
            /\ LET last == Log(p)[Len(Log(p))] IN
               /\ IsCreation(last) /\ last.ok
               /\ \E e \in LayoutNamed(run[p].config, last.cmd.arg) :
                      e.panes = <<>>
               /\ Created(p)[Len(Created(p))] = last.cmd.arg
            /\ IsPrefix(Created(p), WindowNames(run[p].config))
            /\ \A k \in 1..(Len(Created(p)) - 1) :
                  \A e \in LayoutNamed(run[p].config, Created(p)[k]) :
                      e.panes # <<>>
            /\ Sess(p).present
            /\ \A k \in DOMAIN Created(p) :
                  \E w \in Sess(p).windows : w.name = Created(p)[k]
            /\ Cardinality(Sess(p).windows) >= Len(Created(p))

\* the zero-pane window is the descriptor's first: it was renamed in place
C30_FirstWindow ==
    \E p \in Procs :
        /\ run[p].op = "start" /\ run[p].pc = "done"
        /\ run[p].result.text = NoPanesText
        /\ Log(p)[Len(Log(p))].cmd.op = "rename-window"
        /\ \E w \in Sess(p).windows : w.name = "empty"

\* the zero-pane window is the descriptor's second: both windows are there
C30_Witness ==
    \E p \in Procs :
        /\ run[p].op = "start" /\ run[p].pc = "done"
        /\ run[p].result.text = NoPanesText
        /\ Log(p)[Len(Log(p))].cmd.op = "new-window"
        /\ Cardinality(Sess(p).windows) = 2
        /\ \E w \in Sess(p).windows : w.name = "none" /\ Len(w.panes) = 1
        /\ \E w \in Sess(p).windows : w.name = "main"

\* the start before this one, for the same session, failed after its
\* new-session had succeeded
C31_AfterPartial(p) ==
    /\ run[p].op = "start" /\ run[p].last.what = "partial"
    /\ run[p].last.name = run[p].name
\* calls that make or change windows and panes
BuildOps ==
    {"list-windows", "rename-window", "new-window", "split-window",
     "send-keys", "select-layout"}

\* C31 as stated: a start that follows a start which failed after its
\* new-session takes the Present row: its existence check answers Present,
\* it issues no mutating command and its result is that of the Present row.
C31_AsStated ==
    \A p \in Procs :
        (C31_AfterPartial(p) /\ C29_Answered(p)) =>
            /\ Log(p)[1].ok
            /\ \A i \in DOMAIN Log(p) : Log(p)[i].cmd.op \notin MutatingOps
            /\ run[p].pc = "done" => run[p].result = C29_PresentResult(p)

\* C31, amended: a start that follows a start which failed after its
\* new-session issues no window, pane or layout command and changes nothing
\* on the server; when its existence check reaches the server it takes the
\* Present row; when the check itself fails the run takes the session for
\* Absent and ends with an error, at the load or at new-session, which the
\* server refuses.  A start that follows a successful stop of the session
\* finds it Absent and, when the descriptor loads and the server is reached,
\* creates the session again.
C31_NoRepair ==
    \A p \in Procs :
        /\ (C31_AfterPartial(p) /\ C29_Answered(p)) =>
              /\ Count(p, BuildOps \cup {"set-option"}) = 0
              /\ TheServer(p) = run[p].before[ServerOf(has_session("", Sock(p)))]
              /\ TheServer(p).sessions[run[p].name].present
              /\ Log(p)[1].fault = "none" =>
                    /\ Log(p)[1].ok
                    /\ \A i \in DOMAIN Log(p) : Log(p)[i].cmd.op \notin MutatingOps
                    /\ run[p].pc = "done" => run[p].result = C29_PresentResult(p)
              /\ Log(p)[1].fault # "none" =>
                    /\ ~Log(p)[1].ok
                    /\ Len(Log(p)) <= 2
                    /\ Len(Log(p)) = 2 =>
                          Log(p)[2].cmd.op = "new-session" /\ ~Log(p)[2].ok
                    /\ run[p].pc = "done" => ~run[p].result.ok
        /\ (run[p].op = "start" /\ run[p].last.what = "stopped"
                /\ run[p].last.name = run[p].name /\ C29_Answered(p)) =>
              /\ ~Log(p)[1].ok
              /\ (Len(Log(p)) >= 2 /\ Log(p)[2].fault = "none") =>
                    Log(p)[2].cmd.op = "new-session" /\ Log(p)[2].ok
              /\ (Loaded(p) /\ Len(Log(p)) = 1) => run[p].pc = "new_session"

\* the first start failed at its second window; the second start reports
\* "already exists" and the session still has its one window
C31_Witness ==
    \E p \in Procs :
        /\ C31_AfterPartial(p) /\ run[p].pc = "done"
        /\ run[p].result.ok
        /\ ContainsPhrase(run[p].result.text, <<"already", "exists">>)
        /\ Cardinality(Sess(p).windows) = 1
        /\ NumWindows(configFile[run[p].name].config) >= 2

\* a start after a successful stop has made the session again
C31_AfterStop ==
    \E p \in Procs :
        /\ run[p].op = "start" /\ run[p].last.what = "stopped"
        /\ run[p].pc = "done" /\ run[p].result.ok
        /\ Count(p, {"new-window"}) >= 1

\* the run of p has a new-session call that succeeded
C32_Made(p) ==
    \E i \in DOMAIN Log(p) : Log(p)[i].cmd.op = "new-session" /\ Log(p)[i].ok

\* C32: when two start runs for the same session name interleave, at most
\* one of them succeeds at new-session; a run that did not either took the
\* Present row or has new-session as its last call, failed, and it issues
\* no set-option, window, pane, send-keys or layout command; the session has
\* no more windows than the descriptor declares (one more when the initial
\* window is left unrenamed) and no window name occurs more often on the
\* server than in the descriptor.
C32_OneBuilder ==
    /\ Cardinality({p \in Procs : C32_Made(p)}) <= 1
    /\ \A p \in Procs :
          (run[p].op = "start" /\ ~C32_Made(p)) =>
              /\ Count(p, BuildOps \cup {"set-option"}) = 0
              /\ \A i \in DOMAIN Log(p) :
                    Log(p)[i].cmd.op \in {"has-session", "new-session", "attach-session"}
              /\ \A i \in DOMAIN Log(p) :
                    Log(p)[i].cmd.op = "new-session" =>
                        /\ i = Len(Log(p)) /\ ~Log(p)[1].ok
                        /\ run[p].pc = "done" /\ ~run[p].result.ok
              /\ \A i \in DOMAIN Log(p) :
                    Log(p)[i].cmd.op = "attach-session" => Log(p)[1].ok
    /\ \A p \in Procs :
          run[p].op = "start" =>
              LET cfg  == configFile[run[p].name].config
                  wins == Sess(p).windows
              IN  /\ Cardinality(wins) <= NumWindows(cfg) + 1
                  /\ \A w \in wins :
                        Cardinality({v \in wins : v.name = w.name})
                          <= IF w.name = DefaultWindowName THEN 1
                             ELSE Cardinality({k \in DOMAIN WindowNames(cfg) :
                                                 WindowNames(cfg)[k] = w.name})

\* both runs got Absent from a sound existence check; one built the whole
\* session and the other was refused at new-session
C32_Witness ==
    \E p, q \in Procs :
        /\ p # q
        /\ run[p].pc = "done" /\ run[q].pc = "done"
        /\ Log(p)[1].fault = "none" /\ ~Log(p)[1].ok
        /\ Log(q)[1].fault = "none" /\ ~Log(q)[1].ok
        /\ run[p].result.ok /\ C32_Made(p) /\ Count(p, {"new-window"}) >= 1
        /\ Len(Log(q)) = 2 /\ Log(q)[2].cmd.op = "new-session"
        /\ Log(q)[2].fault = "none" /\ ~Log(q)[2].ok

\* the calls that address a window of the session by its name
ByWindowName == {"send-keys", "split-window", "select-layout"}

\* C33: every send-keys, split-window and select-layout of a start run
\* names the window the run made last, the one of the WindowSpec the command
\* belongs to, and, when the call reaches the server, the server finds that
\* window: the command is delivered.
C33_OwnWindow ==
    \A p \in Procs :
        run[p].op = "start" =>
            \A i \in DOMAIN Log(p) :
                Log(p)[i].cmd.op \in ByWindowName =>
                    /\ Log(p)[i].cmd.widx = -1
                    /\ Log(p)[i].cmd.window = WindowBefore(p, i)
                    /\ Log(p)[i].fault = "none" =>
                          ~ContainsPhrase(Log(p)[i].err, <<"can't", "find", "window:">>)

\* two windows of one name: the command of the second was refused and was
\* entered in no pane of the session
C33_Witness ==
    \E p \in Procs :
        /\ run[p].op = "start" /\ run[p].pc = "done" /\ ~run[p].result.ok
        /\ faults = 0
        /\ ContainsPhrase(run[p].result.text, <<"can't", "find", "window:">>)
        /\ Log(p)[Len(Log(p))].cmd.op = "send-keys"
        /\ Log(p)[Len(Log(p))].cmd.arg = "y"
        /\ Cardinality({w \in Sess(p).windows : w.name = "a"}) = 2
        /\ \A w \in Sess(p).windows : \A k \in DOMAIN w.panes :
              \A j \in DOMAIN w.panes[k].input : w.panes[k].input[j] # "y"

\* a call without the server it was sent to, and what came back from it
C34_Command(e) == [e.cmd EXCEPT !.socket = NoSocketPath]
C34_Outcome(e) ==
    [ok |-> e.ok, kind |-> e.kind, text |-> e.text, num |-> e.num,
     spawned |-> e.spawned, exit |-> e.exit, tty |-> e.tty]
\* the two runs had the same outcome at each of their first n calls
C34_SameOutcomes(n) ==
    \A j \in 1..n : C34_Outcome(Log(1)[j]) = C34_Outcome(Log(2)[j])

\* C34: two start runs with the same descriptor file, the same flags and
\* the same initial server state issue the same command at every position
\* up to which all their earlier calls had the same outcome, and when both
\* have ended with the same outcomes throughout they have issued the same
\* number of commands and returned the same result.
C34_Deterministic ==
    (run[1].op = "start" /\ run[2].op = "start") =>
        /\ \A i \in DOMAIN Log(1) \cap DOMAIN Log(2) :
              C34_SameOutcomes(i - 1) =>
                  C34_Command(Log(1)[i]) = C34_Command(Log(2)[i])
        /\ (run[1].pc = "done" /\ run[2].pc = "done"
                /\ \A i \in DOMAIN Log(1) \cap DOMAIN Log(2) : C34_SameOutcomes(i)) =>
              /\ Len(Log(1)) = Len(Log(2))
              /\ run[1].result = run[2].result

\* both runs succeeded with the same outcome at every call, and the first
\* window is named a by one and b by the other
C34_Witness ==
    /\ run[1].op = "start" /\ run[2].op = "start"
    /\ run[1].pc = "done" /\ run[2].pc = "done"
    /\ run[1].result.ok /\ run[2].result.ok
    /\ Len(Log(1)) = Len(Log(2)) /\ Len(Log(1)) >= 6
    /\ C34_SameOutcomes(Len(Log(1)))
    /\ Log(1)[6].cmd.op = "rename-window" /\ Log(2)[6].cmd.op = "rename-window"
    /\ Log(1)[6].cmd.arg # Log(2)[6].cmd.arg
    /\ Len(configFile[run[1].name].config.windows) = 1

\* C35: every command of a start run names the session the run was asked
\* for, whatever name the loaded descriptor gives itself, and a session is
\* on the server only under a name some run was asked for.
C35_RequestedName ==
    /\ \A p \in Procs :
          run[p].op = "start" =>
              \A i \in DOMAIN Log(p) : Log(p)[i].cmd.session = run[p].name
    /\ \A k \in Sockets : \A n \in DOMAIN server[k].sessions :
          server[k].sessions[n].present =>
              \E p \in Procs : run[p].op = "start" /\ run[p].name = n

\* a finished run with attach whose descriptor is named otherwise than the
\* request: the session is there under the requested name only
C35_Witness ==
    \E p \in Procs :
        /\ run[p].op = "start" /\ run[p].pc = "done" /\ run[p].result.ok
        /\ run[p].attach /\ run[p].exists = 0
        /\ run[p].config.name # run[p].name
        /\ Sess(p).present
        /\ ~TheServer(p).sessions[run[p].config.name].present
        /\ Log(p)[Len(Log(p))].cmd.op = "attach-session"

\* C36: a start run issues at most one attach, only when it was asked to
\* attach, and the attach is the last call of the run: once it is in the
\* log the run has ended, whether the attach succeeded or failed.
C36_AttachLast ==
    \A p \in Procs :
        run[p].op = "start" =>
            /\ Count(p, {"attach-session"}) <= 1
            /\ \A i \in DOMAIN Log(p) :
                  Log(p)[i].cmd.op = "attach-session" =>
                      /\ run[p].attach
                      /\ i = Len(Log(p))
                      /\ run[p].pc = "done"
                      /\ run[p].result.ok = Log(p)[i].ok

\* a session was built and the attach after it failed: the attach is the
\* last of the calls and the run has returned its error
C36_Witness ==
    \E p \in Procs :
        /\ run[p].op = "start" /\ run[p].pc = "done" /\ ~run[p].result.ok
        /\ run[p].exists = 0 /\ Len(Log(p)) >= 7
        /\ Log(p)[Len(Log(p))].cmd.op = "attach-session"
        /\ ~Log(p)[Len(Log(p))].ok
        /\ Count(p, {"attach-session"}) = 1

\* the splits a descriptor asks for: one for each pane after the first
C37_Splits(cfg) ==
    SeqSum([i \in 1..Len(cfg.windows) |->
        IF cfg.windows[i].kind # "WithLayout" THEN 0
        ELSE SeqSum([j \in 1..Len(cfg.windows[i].window) |->
                IF cfg.windows[i].window[j].panes = <<>> THEN 0
                ELSE Len(cfg.windows[i].window[j].panes) - 1])])
\* the windows of a descriptor that declare a layout
C37_Layouts(cfg) ==
    SeqSum([i \in 1..Len(cfg.windows) |->
        IF cfg.windows[i].kind # "WithLayout" THEN 0
        ELSE SeqSum([j \in 1..Len(cfg.windows[i].window) |->
                IF cfg.windows[i].window[j].layout = NoLayout THEN 0 ELSE 1])])
\* the calls of a run are within what its descriptor and flags allow
C37_Bounded(p) ==
    LET cfg == run[p].config IN
    /\ Count(p, {"has-session"}) <= 1
    /\ run[p].op = "exists" => Len(Log(p)) <= 1
    /\ run[p].op = "stop" =>
          /\ Len(Log(p)) <= 2
          /\ Count(p, {"kill-session"}) = Len(Log(p)) - Count(p, {"has-session"})
    /\ run[p].op = "start" =>
          /\ Count(p, {"new-session"}) <= 1
          /\ Count(p, {"set-option"}) <= 2
          /\ Count(p, {"list-windows"}) <= 1
          /\ Count(p, {"rename-window"}) <= 1
          /\ Count(p, {"new-window"}) + Count(p, {"rename-window"}) <= NumWindows(cfg)
          /\ Count(p, {"send-keys"}) <= NumSends(cfg)
          /\ Count(p, {"split-window"}) <= C37_Splits(cfg)
          /\ Count(p, {"select-layout"}) <= C37_Layouts(cfg)
          /\ Count(p, {"attach-session"}) <= IF run[p].attach THEN 1 ELSE 0
          /\ Count(p, {"kill-session"}) = 0

\* C37: provided each external call returns, every run that has begun ends
\* with a result, and at every moment the calls it has issued are within
\* the bound its descriptor gives: one existence check, one new-session,
\* two set-options, one query and one rename, a rename or new-window for
\* each window, a send-keys for each command, a split for each pane after
\* the first, a select-layout for each declared layout, one attach when
\* asked for; a stop run issues the check and at most one kill-session.
C37_Terminates ==
    /\ [](\A p \in Procs : C37_Bounded(p))
    /\ \A p \in Procs :
          (run[p].pc \notin {"idle", "done"})
              ~> (run[p].pc = "done" /\ run[p].result # NoResult)

\* a finished start that used its whole allowance: every call the
\* descriptor allows was issued, splits and a layout among them
C37_Witness ==
    \E p \in Procs :
        /\ run[p].op = "start" /\ run[p].pc = "done" /\ run[p].result.ok
        /\ run[p].attach
        /\ Count(p, {"send-keys"}) = NumSends(run[p].config)
        /\ Count(p, {"split-window"}) = C37_Splits(run[p].config)
        /\ Count(p, {"split-window"}) >= 3
        /\ Count(p, {"select-layout"}) = 1
        /\ Len(Log(p)) = 7 + NumSends(run[p].config) + C37_Splits(run[p].config) + 1

\* the shape of a node, as the claim names the shapes
C38_Shape(node) ==
    CASE node.t = "Sequence" /\ (\A i \in DOMAIN node.seq : node.seq[i].t = "String")
            -> "Multiple"
      [] node.t = "Mapping" -> "Named"
      [] node.t = "String" -> "Simple"
      [] node.t = "Null" -> "Null"
      [] OTHER -> "none"

\* C38: a pane list parses exactly when each of its nodes has one of the
\* four shapes, and then there is one PaneSpec for each node, in the order
\* of the nodes, of the variant of the node's shape and holding what the
\* node holds: a sequence of strings gives Multiple, a mapping Named, a
\* string scalar Simple, null Null.  The list "vim", "", "top" gives
\* Simple("vim"), a pane whose commands() is empty, Simple("top"); a list of
\* strings gives Simple panes only.
C38_ShapeClassification ==
    (pure.fn = "parse" /\ pure.applied) =>
        LET nodes == pure.nodes
            out == pure.parsed
        IN  /\ out.ok <=> \A i \in DOMAIN nodes : C38_Shape(nodes[i]) # "none"
            /\ out.ok =>
                  /\ Len(out.panes) = Len(nodes)
                  /\ \A i \in DOMAIN nodes :
                        /\ out.panes[i].kind = C38_Shape(nodes[i])
                        /\ nodes[i].t = "String" => out.panes[i].cmd = nodes[i].s
                        /\ nodes[i].t = "Mapping" => out.panes[i].map = nodes[i].seq
                        /\ nodes[i].t = "Sequence" =>
                              /\ Len(out.panes[i].cmds) = Len(nodes[i].seq)
                              /\ \A k \in DOMAIN nodes[i].seq :
                                    out.panes[i].cmds[k] = nodes[i].seq[k].s
            /\ nodes = <<YString("vim"), YString(""), YString("top")>> =>
                  /\ out.ok
                  /\ out.panes[1] = PaneSimple("vim")
                  /\ commands(out.panes[2]) = <<>>
                  /\ out.panes[3] = PaneSimple("top")
            /\ (\A i \in DOMAIN nodes : nodes[i].t = "String") =>
                  /\ out.ok
                  /\ \A i \in DOMAIN out.panes : out.panes[i].kind = "Simple"

\* the list "vim", null, "top": three panes, the second the Null variant
C38_Witness ==
    /\ pure.fn = "parse" /\ pure.applied
    /\ pure.nodes = <<YString("vim"), YNull, YString("top")>>
    /\ pure.parsed.ok
    /\ pure.parsed.panes = <<PaneSimple("vim"), PaneNull, PaneSimple("top")>>

\* the list "vim", "", "top" has been parsed
C38_EmptyString ==
    /\ pure.fn = "parse" /\ pure.applied
    /\ pure.nodes = <<YString("vim"), YString(""), YString("top")>>
    /\ pure.parsed.panes[2] = PaneSimple("")

====
